---------------------------- MODULE Spec2Model ----------------------------
(***************************************************************************)
(* Membership lifecycle of the gym-management application: the Express     *)
(* routes of server/routes.ts over the member and plan stores (MemStorage  *)
(* and DatabaseStorage), the status badge of the members table and the     *)
(* dashboard hooks.                                                        *)
(*                                                                         *)
(* Time.  An instant (a JavaScript Date) is a whole number of minutes      *)
(* since 2023-01-01T00:00Z.  A calendar date string 'yyyy-MM-dd' is the    *)
(* tuple <<y, m, d>>; the order of such strings is the lexicographic       *)
(* order of the tuples.  tz is the offset of the local time zone of the    *)
(* process from UTC in minutes (local = UTC + tz), without daylight        *)
(* saving.                                                                 *)
(***************************************************************************)
EXTENDS Integers, Sequences, FiniteSets, TLC

VARIABLES
    tz,               \* local time zone of the process, minutes east of UTC
    storageKind,      \* which IStorage the process exports: routes.ts:1028
    now,              \* the current instant, the value of new Date()
    membershipPlans,  \* storage.membershipPlans: id -> plan or NoRow
    planIdCounter,    \* MemStorage.planIdCounter / serial of membership_plans
    members,          \* storage.members: id -> member or NoRow
    memberIdCounter,  \* MemStorage.memberIdCounter / serial of members
    resp,             \* the last request and its response
    gyms,             \* storage.gyms: id -> gym or NoRow
    gymIdCounter,     \* MemStorage.gymIdCounter
    otps,             \* storage.otps: id -> one-time password or NoRow
    otpIdCounter,     \* MemStorage.otpIdCounter / serial of otps
    reg,              \* the POST /api/register handlers and where each stands
    rst,              \* the POST /api/reset-password handlers, likewise
    rnw,              \* the POST /api/members/:id/renew handler under way
    table             \* the state of the MembersTable component

\* the variables that the routes of plans and members leave alone
authVars == <<gyms, gymIdCounter, otps, otpIdCounter, reg, rst, rnw, table>>

vars == <<tz, storageKind, now, membershipPlans, planIdCounter, members,
          memberIdCounter, resp, gyms, gymIdCounter, otps, otpIdCounter,
          reg, rst, rnw, table>>

-----------------------------------------------------------------------------
(* Bounds of the model *)

MaxMembers == 2
MaxPlans == 2

MaxGyms == 3
MaxOtps == 2

Gyms == {1, 2}
MemberIds == 1..MaxMembers
PlanIds == 1..MaxPlans
GymIds == 1..MaxGyms
OtpIds == 1..MaxOtps
AbsentId == MaxMembers + MaxPlans + 1

-----------------------------------------------------------------------------
(* Optional values: <<>> is undefined (a key that is absent), <<v>> is v *)

Undefined == <<>>
Some(v) == <<v>>
Truthy(o) == o = <<TRUE>>
NoRow == [row |-> FALSE]
NoPlan == 0

-----------------------------------------------------------------------------
(* The gyms: the accounts that own plans and members *)

Usernames == {"ann", "bob"}
Emails == {"ann@gym.test", "bob@gym.test"}

\* hashPassword(password): the scrypt hash of the password under a salt
\* drawn at random, and the salt
hashPassword(password, salt) == [salt |-> salt, hashed |-> <<password, salt>>]

Salts == {"5a", "c3"}

\* a row of gyms; every registration carries the password "secret", and the
\* gym name takes no part in a decision
GymRow(id, username, email) ==
    [row |-> TRUE,
     password |-> hashPassword("secret", "5a"),
     id |-> id,
     username |-> username,
     email |-> email]

\* a POST /api/register handler that has not been called
IdleHandler ==
    [username |-> "", email |-> "", pc |-> "idle", status |-> 0]

RegIds == {1, 2}

\* a POST /api/reset-password handler that has not been called
IdleReset ==
    [password |-> "", email |-> "", pc |-> "idle", status |-> 0, code |-> "",
     otp |-> 0, gym |-> 0]

ResetIds == {1, 2}

\* the MembersTable component is not mounted
ClosedTable == [mounted |-> FALSE]

\* no POST /api/members/:id/renew handler is under way
IdleRenew ==
    [id |-> 0, pc |-> "idle", gym |-> 0, membershipPlanId |-> NoPlan,
     isPaid |-> Undefined, existingMember |-> NoRow, nextBillDate |-> <<>>]

\* the gyms of the two sessions that act on plans and members are
\* registered, and no registration or password reset is under way
InitAuth ==
    /\ gyms = [i \in GymIds |->
                  IF i = 1 THEN GymRow(1, "ann", "ann@gym.test")
                  ELSE IF i = 2 THEN GymRow(2, "bob", "bob@gym.test")
                  ELSE NoRow]
    /\ gymIdCounter = 3
    /\ otps = [i \in OtpIds |-> NoRow]
    /\ otpIdCounter = 1
    /\ reg = [r \in RegIds |-> IdleHandler]
    /\ rst = [r \in ResetIds |-> IdleReset]
    /\ rnw = IdleRenew
    /\ table = ClosedTable

-----------------------------------------------------------------------------
(* The proleptic Gregorian calendar, as Date, date-fns and dayjs use it *)

MinPerDay == 1440

IsLeap(y) == (y % 4 = 0 /\ y % 100 # 0) \/ y % 400 = 0

DaysInMonth(y, m) ==
    IF m = 2 THEN (IF IsLeap(y) THEN 29 ELSE 28)
    ELSE IF m \in {4, 6, 9, 11} THEN 30 ELSE 31

DaysInYear(y) == IF IsLeap(y) THEN 366 ELSE 365

RECURSIVE DaysBeforeYear(_)
DaysBeforeYear(y) ==
    IF y <= 2023 THEN 0 ELSE DaysBeforeYear(y - 1) + DaysInYear(y - 1)

\* the days of year y before its month m (m = 13: the days of the year)
DaysBeforeMonth(y, m) ==
    <<0, 31, 59, 90, 120, 151, 181, 212, 243, 273, 304, 334, 365>>[m]
        + (IF m > 2 /\ IsLeap(y) THEN 1 ELSE 0)

\* the day number of a calendar date (0 is 2023-01-01)
DayNum(c) == DaysBeforeYear(c[1]) + DaysBeforeMonth(c[1], c[2]) + (c[3] - 1)

RECURSIVE YearOfDay(_, _)
YearOfDay(n, y) ==
    IF n < DaysBeforeYear(y + 1) THEN y ELSE YearOfDay(n, y + 1)

RECURSIVE MonthOfDay(_, _, _)
MonthOfDay(k, y, m) ==
    IF k < DaysBeforeMonth(y, m + 1) THEN m ELSE MonthOfDay(k, y, m + 1)

\* the calendar date of a day number
Civil(n) ==
    LET y == YearOfDay(n, 2023)
        k == n - DaysBeforeYear(y)
        m == MonthOfDay(k, y, 1)
    IN  <<y, m, k - DaysBeforeMonth(y, m) + 1>>

\* a < b on 'yyyy-MM-dd' strings
DateLt(a, b) ==
    \/ a[1] < b[1]
    \/ a[1] = b[1] /\ a[2] < b[2]
    \/ a[1] = b[1] /\ a[2] = b[2] /\ a[3] < b[3]

DateLe(a, b) == a = b \/ DateLt(a, b)

\* new Date('yyyy-MM-dd'): a date-only string is midnight UTC
ParseDate(c) == DayNum(c) * MinPerDay

\* date.toISOString().split('T')[0]: the UTC calendar date
ToISODate(t) == Civil(t \div MinPerDay)

\* the calendar date of instant t on the clock of a zone z minutes east of UTC
LocalDate(t, z) == Civil((t + z) \div MinPerDay)

\* date-fns format(date, 'yyyy-MM-dd'): the local calendar date
format(t, z) == LocalDate(t, z)

\* the instant whose local date is c and whose local time of day is that of t
AtLocal(c, t, z) == DayNum(c) * MinPerDay + ((t + z) % MinPerDay) - z

\* calendar date c moved by n months, the day clamped to the month's length
AddMonthsCivil(c, n) ==
    LET k == (c[1] * 12 + (c[2] - 1)) + n
        y == k \div 12
        m == (k % 12) + 1
        dim == DaysInMonth(y, m)
    IN  <<y, m, IF c[3] >= dim THEN dim ELSE c[3]>>

\* date-fns addMonths(date, amount): on the local calendar, time of day kept
addMonths(t, n, z) == AtLocal(AddMonthsCivil(LocalDate(t, z), n), t, z)

\* d = new Date(t); d.setDate(t.getDate() + n): on the local calendar
setDatePlus(t, n, z) ==
    AtLocal(Civil(DayNum(LocalDate(t, z)) + n), t, z)

-----------------------------------------------------------------------------
(* Rows and requests *)

TimeZones == {0 - 300, 0, 330}
StorageKinds == {"MemStorage", "DatabaseStorage"}
OptBool == {Undefined, Some(TRUE), Some(FALSE)}

\* 2024-06-30T20:00Z: the local date is 2024-07-01 east of UTC+4
FirstInstant == ParseDate(<<2024, 6, 30>>) + 1200

\* 2024-07-02T02:00Z: the local date is 2024-07-01 west of UTC-2
LaterInstant == ParseDate(<<2024, 7, 2>>) + 120

NoOut == [none |-> TRUE]

Response(op, g, id, status, out) ==
    [id |-> id, status |-> status, gym |-> g, op |-> op, out |-> out]

\* the status of a request whose handler calls next(error): handleZodError is
\* registered before the routes, so no route's error reaches it
UnhandledStatus == 500

\* insertMembershipPlanSchema.parse(req.body): a body the schema accepts
\* createInsertSchema makes durationMonths an integer and price a number and
\* sets no least value for either
PricedPlanBody(d, price) ==
    [price |-> price, valid |-> TRUE, durationMonths |-> d]

PlanBody(d) == PricedPlanBody(d, 30)

\* a body the schema rejects
InvalidPlanBody == [price |-> 30, valid |-> FALSE, durationMonths |-> 1]

\* insertMemberSchema.parse(req.body): the bodies the schema accepts;
\* membershipPlanId is Undefined when the key is absent and Some(NoPlan) when
\* it is null, isActive and isPaid are Undefined when their key is absent
MemberBodiesOf(joiningDates, nextBillDates, actives, paids, planIds) ==
    [valid : {TRUE}, name : {"ann"}, joiningDate : joiningDates,
     nextBillDate : nextBillDates, isActive : actives, isPaid : paids,
     membershipPlanId : planIds]

\* a body the schema rejects
InvalidMemberBody ==
    [membershipPlanId |-> Undefined,
     isPaid |-> Undefined,
     nextBillDate |-> <<2024, 7, 3>>,
     valid |-> FALSE,
     name |-> "ann",
     joiningDate |-> <<2024, 6, 1>>,
     isActive |-> Undefined]

\* the body of POST /api/members/:id/renew, read without validation
RenewBodiesOf(planIds, paids) == [membershipPlanId : planIds, isPaid : paids]

\* a value v of an optional key: v if present, else d
OrElse(o, d) == IF o = Undefined THEN d ELSE o[1]

\* storage.getMembershipPlan(id) / storage.getMember(id)
getMembershipPlan(id) ==
    IF id \in PlanIds THEN membershipPlans[id] ELSE NoRow

getMember(id) == IF id \in MemberIds THEN members[id] ELSE NoRow

\* the foreign key members.membership_plan_id -> membership_plans.id, which
\* only the database enforces
PlanKeyOk(p) ==
    storageKind = "MemStorage" \/ p = NoPlan \/ getMembershipPlan(p).row

Init ==
    /\ tz = 0
    /\ storageKind \in StorageKinds
    /\ now = FirstInstant
    /\ membershipPlans = [p \in PlanIds |-> NoRow]
    /\ planIdCounter = 1
    /\ members = [m \in MemberIds |-> NoRow]
    /\ memberIdCounter = 1
    /\ resp = Response("none", 0, 0, 0, NoOut)
    /\ InitAuth

\* time passes
Tick ==
    /\ now < LaterInstant
    /\ now' = LaterInstant
    /\ resp' = Response("tick", 0, 0, 0, NoOut)
    /\ UNCHANGED authVars
    /\ UNCHANGED <<tz, storageKind, membershipPlans, planIdCounter, members,
                   memberIdCounter>>

-----------------------------------------------------------------------------
(* Membership plans: routes.ts 47-104 over MemStorage / DatabaseStorage *)

\* POST /api/membership-plans
PostMembershipPlan(g, body) ==
    /\ planIdCounter <= MaxPlans
    /\ IF ~body.valid
       THEN /\ resp' = Response("createPlan", g, 0, UnhandledStatus, NoOut)
            /\ UNCHANGED <<membershipPlans, planIdCounter>>
       ELSE /\ membershipPlans' =
                [membershipPlans EXCEPT ![planIdCounter] =
                    [row |-> TRUE, id |-> planIdCounter, price |-> body.price,
                     durationMonths |-> body.durationMonths,
                     gymId |-> g]]
            /\ planIdCounter' = planIdCounter + 1
            /\ resp' = Response("createPlan", g, planIdCounter, 201, NoOut)
    /\ UNCHANGED authVars
    /\ UNCHANGED <<tz, storageKind, now, members, memberIdCounter>>

\* storage.updateMembershipPlan(id, plan)
updateMembershipPlan(id, plan) ==
    [membershipPlans EXCEPT ![id] =
        [@ EXCEPT !.gymId = plan.gymId,
                  !.durationMonths = plan.durationMonths,
                  !.price = plan.price]]

\* PUT /api/membership-plans/:id
PutMembershipPlan(g, id, body) ==
    LET existingPlan == getMembershipPlan(id) IN
    /\ IF ~body.valid
       THEN /\ resp' = Response("updatePlan", g, id, UnhandledStatus, NoOut)
            /\ UNCHANGED membershipPlans
       ELSE IF ~existingPlan.row \/ existingPlan.gymId # g
       THEN /\ resp' = Response("updatePlan", g, id, 404, NoOut)
            /\ UNCHANGED membershipPlans
       ELSE /\ membershipPlans' =
                updateMembershipPlan(id,
                    [price |-> body.price,
                     durationMonths |-> body.durationMonths,
                     gymId |-> g])
            /\ resp' = Response("updatePlan", g, id, 200, NoOut)
    /\ UNCHANGED authVars
    /\ UNCHANGED <<tz, storageKind, now, planIdCounter, members,
                   memberIdCounter>>

\* the foreign key of members.membership_plan_id has no ON DELETE action: the
\* database refuses to delete a plan that a member references
PlanDeletable(id) ==
    \/ storageKind = "MemStorage"
    \/ \A m \in MemberIds : members[m].row => members[m].membershipPlanId # id

\* storage.deleteMembershipPlan(id)
deleteMembershipPlan(id) == [membershipPlans EXCEPT ![id] = NoRow]

\* a delete that also deactivates the members of the plan
DeleteMembershipPlanCascade(g, id) ==
    LET existingPlan == getMembershipPlan(id) IN
    /\ IF ~existingPlan.row \/ existingPlan.gymId # g
       THEN /\ resp' = Response("deletePlan", g, id, 404, NoOut)
            /\ UNCHANGED <<membershipPlans, members>>
       ELSE /\ membershipPlans' = deleteMembershipPlan(id)
            /\ members' =
                  [m \in MemberIds |->
                      IF members[m].row /\ members[m].membershipPlanId = id
                      THEN [members[m] EXCEPT !.isActive = Some(FALSE)]
                      ELSE members[m]]
            /\ resp' = Response("deletePlan", g, id, 204, NoOut)
    /\ UNCHANGED authVars
    /\ UNCHANGED <<tz, storageKind, now, planIdCounter, memberIdCounter>>

\* DELETE /api/membership-plans/:id
DeleteMembershipPlan(g, id) ==
    LET existingPlan == getMembershipPlan(id) IN
    /\ IF ~existingPlan.row \/ existingPlan.gymId # g
       THEN /\ resp' = Response("deletePlan", g, id, 404, NoOut)
            /\ UNCHANGED membershipPlans
       ELSE IF ~PlanDeletable(id)
       THEN /\ resp' = Response("deletePlan", g, id, UnhandledStatus, NoOut)
            /\ UNCHANGED membershipPlans
       ELSE /\ membershipPlans' = deleteMembershipPlan(id)
            /\ resp' = Response("deletePlan", g, id, 204, NoOut)
    /\ UNCHANGED authVars
    /\ UNCHANGED <<tz, storageKind, now, planIdCounter, members,
                   memberIdCounter>>

-----------------------------------------------------------------------------
(* Members: routes.ts 207-368 over MemStorage / DatabaseStorage *)

\* the columns is_active and is_paid default to true in the database;
\* MemStorage.createMember stores the parsed body as it is
ColumnDefault(o) ==
    IF storageKind = "DatabaseStorage" /\ o = Undefined THEN Some(TRUE) ELSE o

\* storage.createMember(member)
createMember(member) ==
    [members EXCEPT ![memberIdCounter] =
        [row |-> TRUE,
         id |-> memberIdCounter,
         membershipPlanId |-> OrElse(member.membershipPlanId, NoPlan),
         isPaid |-> ColumnDefault(member.isPaid),
         nextBillDate |-> member.nextBillDate,
         name |-> member.name,
         joiningDate |-> member.joiningDate,
         isActive |-> ColumnDefault(member.isActive),
         gymId |-> member.gymId,
         createdAt |-> now]]

\* the next bill date POST /api/members computes: routes.ts 212-220
EnrollNextBillDate(memberData) ==
    LET plan == getMembershipPlan(OrElse(memberData.membershipPlanId, NoPlan))
    IN  IF OrElse(memberData.membershipPlanId, NoPlan) # NoPlan /\ plan.row
        THEN addMonths(ParseDate(memberData.joiningDate), plan.durationMonths, tz)
        ELSE ParseDate(memberData.joiningDate)

\* an enrolment in which the gymId of the body wins over that of the session
PostMemberBodyGym(g, body) ==
    /\ memberIdCounter <= MaxMembers
    /\ IF ~body.valid
       THEN /\ resp' = Response("enroll", g, 0, UnhandledStatus, NoOut)
            /\ UNCHANGED <<members, memberIdCounter>>
       ELSE /\ members' =
                createMember(
                    [membershipPlanId |-> body.membershipPlanId,
                     isPaid |-> body.isPaid,
                     nextBillDate |-> format(EnrollNextBillDate(body), tz),
                     name |-> body.name,
                     joiningDate |-> body.joiningDate,
                     isActive |-> body.isActive,
                     gymId |-> body.gymId])
            /\ memberIdCounter' = memberIdCounter + 1
            /\ resp' = Response("enroll", g, memberIdCounter, 201, NoOut)
    /\ UNCHANGED authVars
    /\ UNCHANGED <<tz, storageKind, now, membershipPlans, planIdCounter>>

\* POST /api/members
PostMember(g, body) ==
    /\ memberIdCounter <= MaxMembers
    /\ IF ~body.valid
       THEN /\ resp' = Response("enroll", g, 0, UnhandledStatus, NoOut)
            /\ UNCHANGED <<members, memberIdCounter>>
       ELSE IF ~PlanKeyOk(OrElse(body.membershipPlanId, NoPlan))
       THEN /\ resp' = Response("enroll", g, 0, UnhandledStatus, NoOut)
            /\ memberIdCounter' = memberIdCounter + 1
            /\ UNCHANGED members
       ELSE /\ members' =
                createMember(
                    [membershipPlanId |-> body.membershipPlanId,
                     isPaid |-> body.isPaid,
                     nextBillDate |-> format(EnrollNextBillDate(body), tz),
                     name |-> body.name,
                     joiningDate |-> body.joiningDate,
                     isActive |-> body.isActive,
                     gymId |-> g])
            /\ memberIdCounter' = memberIdCounter + 1
            /\ resp' = Response("enroll", g, memberIdCounter, 201, NoOut)
    /\ UNCHANGED authVars
    /\ UNCHANGED <<tz, storageKind, now, membershipPlans, planIdCounter>>

\* a key of an update: the stored value stays when the key is absent
Keep(o, stored) == IF o = Undefined THEN stored ELSE o

\* storage.updateMember(id, member): the keys present in member overwrite
updateMember(id, member) ==
    [members EXCEPT ![id] =
        [@ EXCEPT !.name = OrElse(member.name, @),
                  !.joiningDate = OrElse(member.joiningDate, @),
                  !.nextBillDate = OrElse(member.nextBillDate, @),
                  !.isActive = Keep(member.isActive, @),
                  !.isPaid = Keep(member.isPaid, @),
                  !.membershipPlanId = OrElse(member.membershipPlanId, @),
                  !.gymId = OrElse(member.gymId, @)]]

\* the next bill date PUT /api/members/:id stores: routes.ts 265-274
UpdateNextBillDate(memberData, existingMember) ==
    LET p == OrElse(memberData.membershipPlanId, NoPlan)
        plan == getMembershipPlan(p)
    IN  IF p # NoPlan /\ p # existingMember.membershipPlanId /\ plan.row
        THEN format(addMonths(ParseDate(memberData.joiningDate),
                              plan.durationMonths, tz), tz)
        ELSE memberData.nextBillDate

\* PUT /api/members/:id
PutMember(g, id, body) ==
    LET existingMember == getMember(id) IN
    /\ IF ~body.valid
       THEN /\ resp' = Response("update", g, id, UnhandledStatus, NoOut)
            /\ UNCHANGED members
       ELSE IF ~existingMember.row \/ existingMember.gymId # g
       THEN /\ resp' = Response("update", g, id, 404, NoOut)
            /\ UNCHANGED members
       ELSE IF ~PlanKeyOk(OrElse(body.membershipPlanId,
                                 existingMember.membershipPlanId))
       THEN /\ resp' = Response("update", g, id, UnhandledStatus, NoOut)
            /\ UNCHANGED members
       ELSE /\ members' =
                updateMember(id,
                    [membershipPlanId |-> body.membershipPlanId,
                     isPaid |-> body.isPaid,
                     nextBillDate |-> Some(UpdateNextBillDate(body, existingMember)),
                     name |-> Some(body.name),
                     joiningDate |-> Some(body.joiningDate),
                     isActive |-> body.isActive,
                     gymId |-> Some(g)])
            /\ resp' = Response("update", g, id, 200, NoOut)
    /\ UNCHANGED authVars
    /\ UNCHANGED <<tz, storageKind, now, membershipPlans, planIdCounter,
                   memberIdCounter>>

\* updateMemberStatus that also marks the member as paid
updateMemberStatusAndPaid(id, isActive) ==
    [members EXCEPT ![id] = [@ EXCEPT !.isActive = Some(isActive),
                                      !.isPaid = Some(TRUE)]]

\* storage.updateMemberStatus(id, isActive)
updateMemberStatus(id, isActive) ==
    [members EXCEPT ![id] = [@ EXCEPT !.isActive = Some(isActive)]]

\* PATCH /api/members/:id/status without the check of the owning gym
PatchMemberStatusAnyGym(g, id, isActive) ==
    /\ IF isActive = Undefined
       THEN /\ resp' = Response("status", g, id, 400, NoOut)
            /\ UNCHANGED members
       ELSE IF ~getMember(id).row
       THEN /\ resp' = Response("status", g, id, 404, NoOut)
            /\ UNCHANGED members
       ELSE /\ members' =
                [members EXCEPT ![id] = [@ EXCEPT !.isActive = isActive]]
            /\ resp' = Response("status", g, id, 200, NoOut)
    /\ UNCHANGED authVars
    /\ UNCHANGED <<tz, storageKind, now, membershipPlans, planIdCounter,
                   memberIdCounter>>

\* PATCH /api/members/:id/status; isActive = Undefined stands for every
\* value of the body's isActive that is not a boolean
PatchMemberStatus(g, id, isActive) ==
    LET existingMember == getMember(id) IN
    /\ IF isActive = Undefined
       THEN /\ resp' = Response("status", g, id, 400, NoOut)
            /\ UNCHANGED members
       ELSE IF ~existingMember.row \/ existingMember.gymId # g
       THEN /\ resp' = Response("status", g, id, 404, NoOut)
            /\ UNCHANGED members
       ELSE /\ members' = updateMemberStatus(id, isActive[1])
            /\ resp' = Response("status", g, id, 200, NoOut)
    /\ UNCHANGED authVars
    /\ UNCHANGED <<tz, storageKind, now, membershipPlans, planIdCounter,
                   memberIdCounter>>

\* a renewal that extends the stored next bill date instead of starting
\* from today
PostMemberRenewFromBillDate(g, id, body) ==
    LET existingMember == getMember(id)
        membershipPlanId == OrElse(body.membershipPlanId, NoPlan)
        plan == getMembershipPlan(membershipPlanId)
        nextBillDate == AddMonthsCivil(existingMember.nextBillDate,
                                       plan.durationMonths) IN
    /\ IF ~existingMember.row \/ existingMember.gymId # g
       THEN /\ resp' = Response("renew", g, id, 404, NoOut)
            /\ UNCHANGED members
       ELSE IF ~plan.row
       THEN /\ resp' = Response("renew", g, id, 404, NoOut)
            /\ UNCHANGED members
       ELSE /\ members' =
                [members EXCEPT ![id] =
                    [@ EXCEPT !.nextBillDate = nextBillDate,
                              !.isActive = Some(TRUE),
                              !.isPaid = Some(OrElse(body.isPaid, TRUE)),
                              !.membershipPlanId = membershipPlanId]]
            /\ resp' = Response("renew", g, id, 200, NoOut)
    /\ UNCHANGED authVars
    /\ UNCHANGED <<tz, storageKind, now, membershipPlans, planIdCounter,
                   memberIdCounter>>

\* POST /api/members/:id/renew
PostMemberRenew(g, id, body) ==
    LET existingMember == getMember(id)
        membershipPlanId == OrElse(body.membershipPlanId, NoPlan)
        plan == getMembershipPlan(membershipPlanId)
        today == now
        nextBillDate == addMonths(today, plan.durationMonths, tz) IN
    /\ IF ~existingMember.row \/ existingMember.gymId # g
       THEN /\ resp' = Response("renew", g, id, 404, NoOut)
            /\ UNCHANGED members
       ELSE IF ~plan.row
       THEN /\ resp' = Response("renew", g, id, 404, NoOut)
            /\ UNCHANGED members
       ELSE /\ members' =
                updateMember(id,
                    [membershipPlanId |-> Some(membershipPlanId),
                     isPaid |-> Some(OrElse(body.isPaid, TRUE)),
                     nextBillDate |-> Some(format(nextBillDate, tz)),
                     name |-> Some(existingMember.name),
                     joiningDate |-> Some(existingMember.joiningDate),
                     isActive |-> Some(TRUE),
                     gymId |-> Some(existingMember.gymId)])
            /\ resp' = Response("renew", g, id, 200, NoOut)
    /\ UNCHANGED authVars
    /\ UNCHANGED <<tz, storageKind, now, membershipPlans, planIdCounter,
                   memberIdCounter>>

\* deleteMember as a soft delete: the row stays, marked inactive
deleteMemberTombstone(id) ==
    [members EXCEPT ![id] = [@ EXCEPT !.isActive = Some(FALSE)]]

\* storage.deleteMember(id)
deleteMember(id) == [members EXCEPT ![id] = NoRow]

\* DELETE /api/members/:id
DeleteMember(g, id) ==
    LET existingMember == getMember(id) IN
    /\ IF ~existingMember.row \/ existingMember.gymId # g
       THEN /\ resp' = Response("delete", g, id, 404, NoOut)
            /\ UNCHANGED members
       ELSE /\ members' = deleteMember(id)
            /\ resp' = Response("delete", g, id, 204, NoOut)
    /\ UNCHANGED authVars
    /\ UNCHANGED <<tz, storageKind, now, membershipPlans, planIdCounter,
                   memberIdCounter>>

\* GET /api/members/:id
GetMember(g, id) ==
    LET member == getMember(id) IN
    /\ IF ~member.row \/ member.gymId # g
       THEN resp' = Response("get", g, id, 404, NoOut)
       ELSE resp' = Response("get", g, id, 200, [member |-> member])
    /\ UNCHANGED authVars
    /\ UNCHANGED <<tz, storageKind, now, membershipPlans, planIdCounter,
                   members, memberIdCounter>>

-----------------------------------------------------------------------------
(* Dashboard aggregates of the server: routes.ts 135-174 and 921-969 *)

GymMembers(g) == {m \in MemberIds : members[m].row /\ members[m].gymId = g}

\* storage.countMembers(gymId)
countMembers(g) == Cardinality(GymMembers(g))

\* storage.countMembersJoinedAfter(gymId, date)
countMembersJoinedAfter(g, date) ==
    Cardinality({m \in GymMembers(g) :
                    DateLe(ToISODate(date), members[m].joiningDate)})

\* the filter of storage.countMembersExpiringBetween and
\* storage.getMembersExpiringBetween
MembersExpiringBetween(g, startDate, endDate) ==
    {m \in GymMembers(g) :
        /\ Truthy(members[m].isActive)
        /\ DateLe(ToISODate(startDate), members[m].nextBillDate)
        /\ DateLe(members[m].nextBillDate, ToISODate(endDate))}

countMembersExpiringBetween(g, startDate, endDate) ==
    Cardinality(MembersExpiringBetween(g, startDate, endDate))

\* the filter of storage.countExpiredMembers and storage.getExpiredMembers
ExpiredMembers(g, date) ==
    {m \in GymMembers(g) : DateLt(members[m].nextBillDate, ToISODate(date))}

countExpiredMembers(g, date) == Cardinality(ExpiredMembers(g, date))

\* storage.countInactiveMembers(gymId)
countInactiveMembers(g) ==
    Cardinality({m \in GymMembers(g) : ~Truthy(members[m].isActive)})

\* new Date(today.getFullYear(), today.getMonth(), 1): local midnight
FirstDayOfMonth(t, z) ==
    LET c == LocalDate(t, z) IN DayNum(<<c[1], c[2], 1>>) * MinPerDay - z

\* GET /api/dashboard/stats
GetDashboardStats(g) ==
    LET today == now
        threeDaysFromNow == setDatePlus(today, 3, tz)
        oneWeekFromNow == setDatePlus(today, 7, tz) IN
    /\ resp' = Response("stats", g, 0, 200,
          [totalMembers |-> countMembers(g),
           monthlyJoined |->
              countMembersJoinedAfter(g, FirstDayOfMonth(today, tz)),
           expiringThreeDays |->
              countMembersExpiringBetween(g, today, threeDaysFromNow),
           expiringWeek |->
              countMembersExpiringBetween(g, today, oneWeekFromNow),
           expiredMembers |-> countExpiredMembers(g, today),
           inactiveMembers |-> countInactiveMembers(g)])
    /\ UNCHANGED authVars
    /\ UNCHANGED <<tz, storageKind, now, membershipPlans, planIdCounter,
                   members, memberIdCounter>>

\* the lists that hold each element of S once
ListsOf(S) ==
    {f \in [1..Cardinality(S) -> S] :
        \A i, j \in 1..Cardinality(S) : i # j => f[i] # f[j]}

\* the lists with the latest nextBillDate first
ByNextBillDateDesc(S) ==
    {f \in ListsOf(S) :
        \A i, j \in 1..Cardinality(S) :
            i < j =>
                DateLe(members[f[j]].nextBillDate, members[f[i]].nextBillDate)}

\* sort((a, b) => a.nextBillDate - b.nextBillDate) of MemStorage, stable over
\* the insertion order of the Map, and ORDER BY next_bill_date of the
\* database, which leaves the order of rows with equal dates open
ByNextBillDate(S) ==
    {f \in ListsOf(S) :
        \A i, j \in 1..Cardinality(S) :
            i < j =>
                /\ DateLe(members[f[i]].nextBillDate, members[f[j]].nextBillDate)
                /\ (/\ storageKind = "MemStorage"
                    /\ members[f[i]].nextBillDate = members[f[j]].nextBillDate)
                      => f[i] < f[j]}

\* GET /api/members/expiring-soon
GetExpiringSoon(g) ==
    LET today == now
        oneWeekFromNow == setDatePlus(today, 7, tz) IN
    /\ \E list \in ByNextBillDate(
                        MembersExpiringBetween(g, today, oneWeekFromNow)) :
          resp' = Response("expiringSoon", g, 0, 200, [members |-> list])
    /\ UNCHANGED authVars
    /\ UNCHANGED <<tz, storageKind, now, membershipPlans, planIdCounter,
                   members, memberIdCounter>>

\* GET /api/members/expired
GetExpired(g) ==
    LET today == now IN
    /\ \E list \in ByNextBillDate(ExpiredMembers(g, today)) :
          resp' = Response("expired", g, 0, 200, [members |-> list])
    /\ UNCHANGED authVars
    /\ UNCHANGED <<tz, storageKind, now, membershipPlans, planIdCounter,
                   members, memberIdCounter>>

-----------------------------------------------------------------------------
(* The member list: routes.ts 107-132 over getMembers, 516-568 and 832-875.
   A name is the tuple of its characters. *)

\* the lower-case form of the letters that have one
LowerOf == ("A" :> "a") @@ ("N" :> "n") @@ ("B" :> "b")

\* String.prototype.toLowerCase
toLowerCase(str) ==
    [i \in DOMAIN str |->
        IF str[i] \in DOMAIN LowerOf THEN LowerOf[str[i]] ELSE str[i]]

\* String.prototype.includes
includes(str, part) ==
    \E i \in 0..(Len(str) - Len(part)) :
        \A k \in 1..Len(part) : str[i + k] = part[k]

\* column LIKE '%part%' of PostgreSQL: the case of letters counts and '_' in
\* the pattern stands for any one character (no pattern of the model holds
\* '%' or the escape character)
like(str, part) ==
    \E i \in 0..(Len(str) - Len(part)) :
        \A k \in 1..Len(part) : part[k] = "_" \/ str[i + k] = part[k]

\* the name condition of getMembers; the filter is Undefined when the query
\* has no name or an empty one
NameMatches(member, name) ==
    \/ name = Undefined
    \/ IF storageKind = "MemStorage"
       THEN includes(toLowerCase(member.name), toLowerCase(name[1]))
       ELSE like(member.name, name[1])

\* the status condition of getMembers
StatusMatches(member, status) ==
    IF status = Some("active")
    THEN IF storageKind = "MemStorage" THEN Truthy(member.isActive)
         ELSE member.isActive = Some(TRUE)
    ELSE IF status = Some("inactive")
    THEN IF storageKind = "MemStorage" THEN ~Truthy(member.isActive)
         ELSE member.isActive = Some(FALSE)
    ELSE IF status = Some("expired")
    THEN DateLt(member.nextBillDate, ToISODate(now))
    ELSE TRUE

\* the rows getMembers keeps
FilteredMembers(g, filter) ==
    {m \in GymMembers(g) :
        /\ NameMatches(members[m], filter.name)
        /\ StatusMatches(members[m], filter.status)}

\* sort((a, b) => b.createdAt - a.createdAt) of MemStorage, stable over the
\* insertion order of the Map, and ORDER BY created_at DESC of the database,
\* which leaves the order of rows with equal created_at open
ByCreatedAtDesc(S) ==
    {f \in ListsOf(S) :
        \A i, j \in 1..Cardinality(S) :
            i < j =>
                /\ members[f[i]].createdAt >= members[f[j]].createdAt
                /\ (/\ storageKind = "MemStorage"
                    /\ members[f[i]].createdAt = members[f[j]].createdAt)
                      => f[i] < f[j]}

\* Array.prototype.slice(from, to) / LIMIT to - from OFFSET from
slice(list, from, to) ==
    LET lo == IF from < Len(list) THEN from ELSE Len(list)
        hi == IF to < Len(list) THEN to ELSE Len(list)
    IN  IF lo < hi THEN SubSeq(list, lo + 1, hi) ELSE <<>>

\* Math.ceil(a / b) for b > 0
Ceil(a, b) == 0 - ((0 - a) \div b)

\* the page size of a request that names none
DefaultLimit == 10

\* GET /api/members; page and limit are the numbers parseInt reads from the
\* query, 0 when the query has none or one that is not a number
GetMembers(g, filter, page, limit) ==
    LET pageNum == IF page = 0 THEN 1 ELSE page
        limitNum == IF limit = 0 THEN DefaultLimit ELSE limit
        offset == (pageNum - 1) * limitNum
        total == Cardinality(FilteredMembers(g, filter)) IN
    /\ \E list \in ByCreatedAtDesc(FilteredMembers(g, filter)) :
          resp' = Response("list", g, 0, 200,
                     [members |-> slice(list, offset, offset + limitNum),
                      filter |-> filter, page |-> pageNum, limit |-> limitNum,
                      total |-> total,
                      totalPages |-> Ceil(total, limitNum)])
    /\ UNCHANGED authVars
    /\ UNCHANGED <<tz, storageKind, now, membershipPlans, planIdCounter,
                   members, memberIdCounter>>

-----------------------------------------------------------------------------
(* The client: the status badge and the dashboard hook *)

\* the integer part of a / b for b > 0, as dayjs diff(..., 'day') rounds
Trunc(a, b) == IF a >= 0 THEN a \div b ELSE 0 - ((0 - a) \div b)

\* getMemberStatusBadge with Math.floor in place of Math.ceil
getMemberStatusBadgeFloor(member) ==
    LET today == ToISODate(now)
        daysDifference ==
            (ParseDate(member.nextBillDate) - now) \div MinPerDay
    IN  IF ~Truthy(member.isActive) THEN "Inactive"
        ELSE IF DateLt(member.nextBillDate, today) THEN "Expired"
        ELSE IF daysDifference <= 3 THEN "Expiring Soon"
        ELSE "Active"

\* getMemberStatusBadge(member) of the members table
getMemberStatusBadge(member) ==
    LET today == ToISODate(now)
        nextBillDate == ParseDate(member.nextBillDate)
        currentDate == now
        daysDifference == Ceil(nextBillDate - currentDate, MinPerDay)
    IN  IF ~Truthy(member.isActive) THEN "Inactive"
        ELSE IF DateLt(member.nextBillDate, today) THEN "Expired"
        ELSE IF daysDifference <= 3 THEN "Expiring Soon"
        ELSE "Active"

\* the members table renders the badge of a row
Badge(id) ==
    /\ members[id].row
    /\ resp' = Response("badge", members[id].gymId, id, 0,
                        [badge |-> getMemberStatusBadge(members[id])])
    /\ UNCHANGED authVars
    /\ UNCHANGED <<tz, storageKind, now, membershipPlans, planIdCounter,
                   members, memberIdCounter>>

\* dayjs('yyyy-MM-dd'): local midnight
dayjs(c) == DayNum(c) * MinPerDay - tz

\* a.diff(b, 'day')
diffDay(a, b) == Trunc(a - b, MinPerDay)

\* the filter of expiringThreeDays in useDashboardStats
HookExpiringThreeDays ==
    {m \in MemberIds :
        /\ members[m].row
        /\ LET nextBill == dayjs(members[m].nextBillDate)
               diff == diffDay(nextBill, now)
           IN  diff >= 0 /\ diff <= 3}

\* nextBill.isBefore(now, 'day'): before the start of now's local day
HookExpired ==
    {m \in MemberIds :
        /\ members[m].row
        /\ dayjs(members[m].nextBillDate) < dayjs(LocalDate(now, tz))}

\* useDashboardStats, called in the session of gym g: the query function
\* reads the whole members collection
UseDashboardStats(g) ==
    /\ resp' = Response("hookStats", g, 0, 0,
          [totalMembers |-> Cardinality({m \in MemberIds : members[m].row}),
           expiringThreeDays |-> Cardinality(HookExpiringThreeDays),
           expiredMembers |-> Cardinality(HookExpired)])
    /\ UNCHANGED authVars
    /\ UNCHANGED <<tz, storageKind, now, membershipPlans, planIdCounter,
                   members, memberIdCounter>>

\* useExpiringMembers, called in the session of gym g: the members of the
\* whole collection that pass the filter
UseExpiringMembers(g) ==
    /\ resp' = Response("hookExpiring", g, 0, 0,
                        [members |-> HookExpiringThreeDays])
    /\ UNCHANGED authVars
    /\ UNCHANGED <<tz, storageKind, now, membershipPlans, planIdCounter,
                   members, memberIdCounter>>

-----------------------------------------------------------------------------
(* The server: the requests of two gyms on a store that starts empty *)

PlanBodies == {PlanBody(1), PlanBody(3), InvalidPlanBody}

EnrollBodies ==
    MemberBodiesOf({<<2024, 6, 1>>}, {<<2024, 7, 3>>},
                   {Undefined}, {Undefined}, {Undefined})
        \cup {InvalidMemberBody}

UpdateBodies ==
    MemberBodiesOf({<<2024, 6, 1>>}, {<<2024, 7, 3>>}, {Undefined},
                   {Some(FALSE)}, {Undefined})
        \cup {InvalidMemberBody}

RenewBodies ==
    RenewBodiesOf({Undefined, Some(AbsentId)} \cup {Some(p) : p \in PlanIds},
                  {Undefined})

\* the ids that requests address: the oldest row and an id no row has; every
\* younger row is a bystander of the request
MemberTargets == {1, AbsentId}
PlanTargets == {1, AbsentId}

Next ==
    \/ \E g \in Gyms, body \in PlanBodies : PostMembershipPlan(g, body)
    \/ \E g \in Gyms, id \in PlanTargets, body \in PlanBodies :
          PutMembershipPlan(g, id, body)
    \/ \E g \in Gyms, id \in PlanTargets : DeleteMembershipPlan(g, id)
    \/ \E g \in Gyms, body \in EnrollBodies : PostMember(g, body)
    \/ \E g \in Gyms, id \in MemberTargets, body \in UpdateBodies :
          PutMember(g, id, body)
    \/ \E g \in Gyms, id \in MemberTargets, a \in OptBool :
          PatchMemberStatus(g, id, a)
    \/ \E g \in Gyms, id \in MemberTargets, body \in RenewBodies :
          PostMemberRenew(g, id, body)
    \/ \E g \in Gyms, id \in MemberTargets : DeleteMember(g, id)
    \/ \E g \in Gyms, id \in MemberTargets : GetMember(g, id)
    \/ \E g \in Gyms : GetDashboardStats(g)

Spec == Init /\ [][Next]_vars

-----------------------------------------------------------------------------
(* The date and status calculator on its own: a store of two members whose *)
(* next bill dates lie around the current day, read at several times of    *)
(* day in several time zones.  Every such store is reached by enrolling    *)
(* the members and updating their details.                                 *)

CalcDay == DayNum(<<2024, 7, 1>>)
CalcInstants == {CalcDay * MinPerDay + t : t \in {0, 1, 720, 1439}}
CalcDates == {Civil(CalcDay + k) : k \in (0 - 2)..5} \cup {<<2024, 7, 11>>}

CalcMember(id, g, nextBillDate, isActive) ==
    [row |-> TRUE,
     id |-> id,
     membershipPlanId |-> NoPlan,
     isPaid |-> Some(TRUE),
     nextBillDate |-> nextBillDate,
     name |-> "ann",
     joiningDate |-> <<2024, 6, 1>>,
     isActive |-> isActive,
     gymId |-> g,
     createdAt |-> now]

InitCalc ==
    /\ tz \in TimeZones
    /\ storageKind \in StorageKinds
    /\ now \in CalcInstants
    /\ membershipPlans = [p \in PlanIds |-> NoRow]
    /\ planIdCounter = 1
    /\ \E d1 \in CalcDates, d2 \in {<<2024, 7, 3>>, <<2024, 7, 5>>},
          a1 \in {Some(TRUE), Some(FALSE)}, g2 \in Gyms :
          members = [m \in MemberIds |->
                        IF m = 1 THEN CalcMember(1, 1, d1, a1)
                        ELSE IF m = 2 THEN CalcMember(2, g2, d2, Some(TRUE))
                        ELSE NoRow]
    /\ memberIdCounter = 3
    /\ resp = Response("none", 0, 0, 0, NoOut)
    /\ InitAuth

NextCalc ==
    \/ \E id \in {1, 2} : Badge(id)
    \/ \E g \in Gyms : GetDashboardStats(g)
    \/ \E g \in Gyms : GetExpiringSoon(g)
    \/ \E g \in Gyms : GetExpired(g)
    \/ \E g \in Gyms : UseDashboardStats(g)
    \/ \E g \in Gyms : UseExpiringMembers(g)

SpecCalc == InitCalc /\ [][NextCalc]_vars

\* the calendar-day difference nextBillDate - today, today being the UTC date
DaysUntilUTC(member) == DayNum(member.nextBillDate) - (now \div MinPerDay)

\* the calendar-day difference nextBillDate - today, today being the local date
DaysUntilLocal(member) ==
    DayNum(member.nextBillDate) - DayNum(LocalDate(now, tz))

\* C1: the badge of a member follows the precedence: not active gives
\* Inactive whatever the next bill date; otherwise a next bill date before
\* today gives Expired; otherwise a calendar-day difference of at most 3
\* gives Expiring Soon; otherwise Active (today is the UTC date of now)
C1_ClassifyPrecedence ==
    resp.op = "badge" =>
        LET member == members[resp.id]
            d == DaysUntilUTC(member)
        IN  /\ member.isActive = Some(FALSE) => resp.out.badge = "Inactive"
            /\ member.isActive = Some(TRUE) =>
                  resp.out.badge =
                     IF d < 0 THEN "Expired"
                     ELSE IF d <= 3 THEN "Expiring Soon"
                     ELSE "Active"

\* C1: an active member whose next bill date is three days ahead is badged
\* in the middle of the day
C1_Witness ==
    /\ resp.op = "badge"
    /\ members[resp.id].isActive = Some(TRUE)
    /\ DaysUntilUTC(members[resp.id]) = 3
    /\ now % MinPerDay = 720
    /\ resp.out.badge = "Expiring Soon"

\* C10: the hook's expiring-within-3-days count is the number of members
\* whose calendar-day difference nextBillDate - today is between 0 and 3,
\* whatever the time of day
C10_HookExpiringByCalendarDay ==
    resp.op = "hookStats" =>
        resp.out.expiringThreeDays =
            Cardinality({m \in MemberIds :
                            /\ members[m].row
                            /\ DaysUntilLocal(members[m]) >= 0
                            /\ DaysUntilLocal(members[m]) <= 3})

-----------------------------------------------------------------------------
(* Tenant isolation and renewal errors, under Spec *)

\* the step is a request of gym resp'.gym on a member another gym owns
ForeignMemberStep ==
    /\ resp'.op \in {"update", "status", "renew", "delete"}
    /\ getMember(resp'.id).row
    /\ getMember(resp'.id).gymId # resp'.gym

\* the step is a request of gym resp'.gym on a plan another gym owns
ForeignPlanStep ==
    /\ resp'.op \in {"updatePlan", "deletePlan"}
    /\ getMembershipPlan(resp'.id).row
    /\ getMembershipPlan(resp'.id).gymId # resp'.gym

\* the step is a request whose body fails validation
RejectedBodyStep ==
    \/ resp'.op = "update" /\ PutMember(resp'.gym, resp'.id, InvalidMemberBody)
    \/ resp'.op = "status"
          /\ PatchMemberStatus(resp'.gym, resp'.id, Undefined)
    \/ resp'.op = "updatePlan"
          /\ PutMembershipPlan(resp'.gym, resp'.id, InvalidPlanBody)

StoreUnchanged ==
    /\ members' = members
    /\ membershipPlans' = membershipPlans
    /\ memberIdCounter' = memberIdCounter
    /\ planIdCounter' = planIdCounter

\* C3: renew fails with NotFound and changes no member when the member does
\* not exist, the plan does not exist, or the plan belongs to another gym
\* than the acting one
C3_RenewNotFound ==
    [][resp'.op = "renew" =>
         \A body \in RenewBodies :
            LET plan == getMembershipPlan(OrElse(body.membershipPlanId, NoPlan))
            IN  (/\ PostMemberRenew(resp'.gym, resp'.id, body)
                 /\ \/ ~getMember(resp'.id).row
                    \/ ~plan.row
                    \/ plan.gymId # resp'.gym)
                => resp'.status = 404 /\ members' = members]_vars

\* C4 as stated: every mutating request on another gym's member or plan is
\* answered 404 and changes no member and no plan
C4_ForeignAlwaysNotFound ==
    [][ForeignMemberStep \/ ForeignPlanStep =>
         resp'.status = 404 /\ StoreUnchanged]_vars

\* C4: every mutating request on another gym's member or plan changes no
\* member and no plan and gets the response an id without a row gets: 404
\* when its body passes validation, the validation error otherwise
C4_ForeignIsolated ==
    [][ForeignMemberStep \/ ForeignPlanStep =>
         /\ StoreUnchanged
         /\ resp'.status =
               IF ~RejectedBodyStep THEN 404
               ELSE IF resp'.op = "status" THEN 400 ELSE UnhandledStatus]_vars

\* C4: gym 2 has asked to renew a member of gym 1 with a plan that exists,
\* and the member is as enrolled
C4_Witness ==
    /\ resp.op = "renew" /\ resp.gym = 2 /\ resp.id = 1 /\ resp.status = 404
    /\ members[1].row /\ members[1].gymId = 1
    /\ members[1].membershipPlanId = NoPlan
    /\ \E p \in PlanIds : membershipPlans[p].row

-----------------------------------------------------------------------------
(* Deletion, under Spec *)

\* the step is a request on a member id that has no row
AbsentMemberStep ==
    /\ resp'.op \in {"get", "update", "status", "renew", "delete"}
    /\ ~getMember(resp'.id).row

\* the step is a DELETE of a member by the gym that owns it
OwnDeleteStep ==
    /\ resp'.op = "delete"
    /\ getMember(resp'.id).row
    /\ getMember(resp'.id).gymId = resp'.gym

\* a delete by the owner removes the row and nothing else
DeleteRemoves ==
    OwnDeleteStep =>
        /\ resp'.status = 204
        /\ ~members'[resp'.id].row
        /\ \A m \in MemberIds \ {resp'.id} : members'[m] = members[m]
        /\ membershipPlans' = membershipPlans

\* a row that is gone stays gone: no later request brings the id back
StaysAbsent ==
    \A m \in MemberIds :
        (m < memberIdCounter /\ ~members[m].row) => ~members'[m].row

\* the dashboard counts only rows that are there
CountsOnlyRows ==
    resp'.op = "stats" =>
        LET rows == Cardinality({m \in MemberIds :
                        members'[m].row /\ members'[m].gymId = resp'.gym})
        IN  /\ resp'.out.totalMembers = rows
            /\ resp'.out.monthlyJoined <= rows
            /\ resp'.out.expiringThreeDays <= rows
            /\ resp'.out.expiringWeek <= rows
            /\ resp'.out.expiredMembers <= rows
            /\ resp'.out.inactiveMembers <= rows

-----------------------------------------------------------------------------
(* Status changes: enrolments and PATCH /api/members/:id/status *)

StatusEnrollBodies ==
    MemberBodiesOf({<<2024, 6, 1>>}, {<<2024, 7, 3>>},
                   {Undefined, Some(FALSE)}, {Undefined, Some(FALSE)},
                   {Undefined})

NextStatus ==
    \/ \E g \in Gyms, body \in StatusEnrollBodies : PostMember(g, body)
    \/ \E g \in Gyms, id \in MemberIds \cup {AbsentId}, isActive \in OptBool :
          PatchMemberStatus(g, id, isActive)

SpecStatus == Init /\ [][NextStatus]_vars

\* C7: a status change that succeeds sets the isActive of its member to the
\* boolean sent and leaves every other field of that member, every other
\* member, the plans and the id counters as they were; a status change that
\* does not succeed, among them every one whose isActive is not a boolean
\* (answered 400), changes nothing
C7_StatusChangesOnlyActive ==
    [][resp'.op = "status" =>
        LET id == resp'.id IN
        /\ <<membershipPlans, planIdCounter, memberIdCounter>>' =
              <<membershipPlans, planIdCounter, memberIdCounter>>
        /\ \A m \in MemberIds \ {id} : members'[m] = members[m]
        /\ PatchMemberStatus(resp'.gym, id, Undefined) =>
              resp'.status = 400 /\ members' = members
        /\ IF resp'.status = 200
           THEN /\ members[id].row /\ members'[id].row
                /\ members[id].gymId = resp'.gym
                /\ DOMAIN members'[id] = DOMAIN members[id]
                /\ \A f \in DOMAIN members[id] \ {"isActive"} :
                      members'[id][f] = members[id][f]
                /\ \A b \in BOOLEAN :
                      PatchMemberStatus(resp'.gym, id, Some(b)) =>
                          members'[id].isActive = Some(b)
           ELSE members' = members]_vars

\* C7: member 1, enrolled unpaid, has been deactivated while member 2 is in
\* the store
C7_Witness ==
    /\ resp.op = "status" /\ resp.status = 200 /\ resp.id = 1
    /\ members[1].isActive = Some(FALSE)
    /\ members[1].isPaid = Some(FALSE)
    /\ members[2].row

-----------------------------------------------------------------------------
(* Renewals: plans, enrolments, renewals and the passing of time, with the
   server in each of the time zones *)

InitRenew ==
    /\ tz \in TimeZones
    /\ storageKind \in StorageKinds
    /\ now = FirstInstant
    /\ membershipPlans = [p \in PlanIds |-> NoRow]
    /\ planIdCounter = 1
    /\ members = [m \in MemberIds |-> NoRow]
    /\ memberIdCounter = 1
    /\ resp = Response("none", 0, 0, 0, NoOut)
    /\ InitAuth

RenewPlanBodies == {PlanBody(1), PlanBody(8)}

RenewEnrollBodies ==
    MemberBodiesOf({<<2024, 6, 1>>}, {<<2024, 7, 3>>}, {Some(FALSE)},
                   {Undefined}, {Undefined, Some(1)})

RenewRequestBodies ==
    RenewBodiesOf({Undefined} \cup {Some(p) : p \in PlanIds}, OptBool)

NextRenew ==
    \/ Tick
    \/ \E body \in RenewPlanBodies : PostMembershipPlan(1, body)
    \/ \E body \in RenewEnrollBodies : PostMember(1, body)
    \/ \E g \in Gyms, id \in MemberIds, body \in RenewRequestBodies :
          PostMemberRenew(g, id, body)

SpecRenew == InitRenew /\ [][NextRenew]_vars

\* the step is a renewal that succeeded
RenewedStep == resp'.op = "renew" /\ resp'.status = 200

\* C2: after a renewal that succeeds the member's nextBillDate is the
\* server's current date plus the durationMonths of the plan sent, counted in
\* calendar months, whatever the nextBillDate was before; the member is
\* active; isPaid is the value sent, true when none is sent; and a second
\* renewal with the same plan at the same time leaves the nextBillDate of the
\* first
C2_RenewFromToday ==
    [][RenewedStep =>
        LET id == resp'.id
            member == members'[id]
            plan == membershipPlans[member.membershipPlanId] IN
        /\ members[id].row /\ members[id].gymId = resp'.gym
        /\ plan.row
        /\ member.nextBillDate =
              AddMonthsCivil(LocalDate(now, tz), plan.durationMonths)
        /\ member.isActive = Some(TRUE)
        /\ \A body \in RenewRequestBodies :
              PostMemberRenew(resp'.gym, id, body) =>
                  /\ member.isPaid = Some(OrElse(body.isPaid, TRUE))
                  /\ Some(member.membershipPlanId) = body.membershipPlanId
        /\ (/\ resp.op = "renew" /\ resp.status = 200 /\ resp.id = id
            /\ members[id].membershipPlanId = member.membershipPlanId) =>
              member.nextBillDate = members[id].nextBillDate]_vars

\* C2: east of UTC, on the evening of 2024-06-30 UTC, an inactive member
\* whose nextBillDate was 2024-06-01 has been renewed with the 8-month plan
\* and is due on 2025-03-01
C2_Witness ==
    /\ resp.op = "renew" /\ resp.status = 200
    /\ tz = 330 /\ now = FirstInstant
    /\ members[resp.id].joiningDate = <<2024, 6, 1>>
    /\ membershipPlans[members[resp.id].membershipPlanId].durationMonths = 8
    /\ members[resp.id].nextBillDate = <<2025, 3, 1>>
    /\ members[resp.id].isActive = Some(TRUE)

\* the step is an enrolment that stored a member
EnrolledStep == resp'.op = "enroll" /\ resp'.status = 201

\* C6: right after an enrolment and right after a renewal, a member that
\* references a plan has nextBillDate = joiningDate + the plan's
\* durationMonths, and a member that references no plan has
\* nextBillDate = joiningDate
C6_BillingInvariant ==
    [][EnrolledStep \/ RenewedStep =>
        LET member == members'[resp'.id]
            plan == getMembershipPlan(member.membershipPlanId) IN
        member.nextBillDate =
            IF member.membershipPlanId # NoPlan /\ plan.row
            THEN AddMonthsCivil(member.joiningDate, plan.durationMonths)
            ELSE member.joiningDate]_vars

-----------------------------------------------------------------------------
(* Enrolments and updates, with the server in each of the time zones *)

EnrollPlanBodies == {PlanBody(1), PlanBody(3)}

EnrollRequestBodies ==
    MemberBodiesOf({<<2024, 6, 1>>, <<2024, 1, 31>>}, {<<2024, 7, 3>>},
                   {Undefined, Some(FALSE)}, {Undefined, Some(FALSE)},
                   {Undefined, Some(NoPlan), Some(1)})

NextEnroll ==
    \/ \E g \in Gyms, body \in EnrollPlanBodies : PostMembershipPlan(g, body)
    \/ \E g \in Gyms, body \in EnrollRequestBodies : PostMember(g, body)

SpecEnroll == InitRenew /\ [][NextEnroll]_vars

\* C5: an enrolment stores a member of the acting gym whose nextBillDate is
\* joiningDate + the plan's durationMonths when the id of a plan is sent, and
\* joiningDate when none is sent; the member is active unless the request
\* says otherwise, and isPaid is the value sent
C5_EnrollNextBillDate ==
    [][EnrolledStep =>
        LET member == members'[resp'.id] IN
        /\ member.row /\ member.gymId = resp'.gym
        /\ \A body \in EnrollRequestBodies :
              PostMember(resp'.gym, body) =>
                LET p == OrElse(body.membershipPlanId, NoPlan)
                    plan == getMembershipPlan(p) IN
                /\ member.joiningDate = body.joiningDate
                /\ p = NoPlan => member.nextBillDate = body.joiningDate
                /\ (p # NoPlan /\ plan.row) =>
                      member.nextBillDate =
                          AddMonthsCivil(body.joiningDate, plan.durationMonths)
                /\ member.isActive =
                      IF body.isActive = Undefined THEN Some(TRUE)
                      ELSE body.isActive
                /\ body.isPaid # Undefined => member.isPaid = body.isPaid]_vars

UpdateEnrollBodies ==
    MemberBodiesOf({<<2024, 6, 1>>}, {<<2024, 7, 3>>}, {Undefined},
                   {Undefined}, {Undefined, Some(1)})

UpdateRequestBodies ==
    MemberBodiesOf({<<2024, 6, 1>>, <<2024, 6, 15>>},
                   {<<2024, 7, 3>>, <<2024, 8, 20>>}, {Undefined},
                   {Undefined}, {Undefined} \cup {Some(p) : p \in PlanIds})

NextUpdate ==
    \/ \E body \in EnrollPlanBodies : PostMembershipPlan(1, body)
    \/ \E body \in UpdateEnrollBodies : PostMember(1, body)
    \/ \E g \in Gyms, id \in MemberIds, body \in UpdateRequestBodies :
          PutMember(g, id, body)

SpecUpdate == InitRenew /\ [][NextUpdate]_vars

\* C8: after an update that succeeds, when the plan id sent is that of a
\* plan other than the stored one, the stored nextBillDate is the joiningDate
\* sent + the new plan's durationMonths, whatever nextBillDate was sent; when
\* no plan id is sent or it is the stored one, the stored nextBillDate is the
\* one sent
C8_UpdateNextBillDate ==
    [][resp'.op = "update" /\ resp'.status = 200 =>
        LET id == resp'.id IN
        \A body \in UpdateRequestBodies :
            PutMember(resp'.gym, id, body) =>
                LET p == OrElse(body.membershipPlanId,
                                members[id].membershipPlanId)
                    plan == getMembershipPlan(p) IN
                /\ p = members[id].membershipPlanId =>
                      members'[id].nextBillDate = body.nextBillDate
                /\ (p # members[id].membershipPlanId /\ plan.row) =>
                      members'[id].nextBillDate =
                          AddMonthsCivil(body.joiningDate,
                                         plan.durationMonths)]_vars

-----------------------------------------------------------------------------
(* The dashboard buckets, under SpecCalc *)

\* the members of the list out.members of a response
Listed(out) == {out.members[i] : i \in DOMAIN out.members}

Inactive(m) == members[m].isActive = Some(FALSE)

\* C11: no member with isActive = false is in the expiring-soon list of the
\* server, in the list of useExpiringMembers, or in the expiring counts of
\* the server and of useDashboardStats, whatever its nextBillDate
C11_OnlyActiveExpiring ==
    /\ resp.op = "expiringSoon" =>
          \A m \in Listed(resp.out) : ~Inactive(m)
    /\ resp.op = "stats" =>
          /\ resp.out.expiringThreeDays <=
                Cardinality({m \in GymMembers(resp.gym) : ~Inactive(m)})
          /\ resp.out.expiringWeek <=
                Cardinality({m \in GymMembers(resp.gym) : ~Inactive(m)})
    /\ resp.op = "hookExpiring" =>
          \A m \in resp.out.members : ~Inactive(m)
    /\ resp.op = "hookStats" =>
          resp.out.expiringThreeDays =
              Cardinality({m \in HookExpiringThreeDays : ~Inactive(m)})

\* C12: every count and list of the dashboard returned to a gym is made of
\* that gym's members only: the totals are the gym's own, and no member of
\* another gym is listed or counted
C12_ScopedToGym ==
    LET own == GymMembers(resp.gym) IN
    /\ resp.op \in {"expiringSoon", "expired"} => Listed(resp.out) \subseteq own
    /\ resp.op = "stats" =>
          /\ resp.out.totalMembers = Cardinality(own)
          /\ resp.out.inactiveMembers =
                Cardinality({m \in own : ~Truthy(members[m].isActive)})
          /\ resp.out.monthlyJoined <= Cardinality(own)
          /\ resp.out.expiringThreeDays <= resp.out.expiringWeek
          /\ resp.out.expiringWeek <= Cardinality(own)
          /\ resp.out.expiredMembers <= Cardinality(own)
    /\ resp.op = "hookExpiring" => resp.out.members \subseteq own
    /\ resp.op = "hookStats" =>
          /\ resp.out.totalMembers = Cardinality(own)
          /\ resp.out.expiringThreeDays <= Cardinality(own)
          /\ resp.out.expiredMembers <= Cardinality(own)

\* C13: the Expired and Inactive buckets share no member: a member with
\* isActive = false whose nextBillDate is before today is not listed or
\* counted as expired, so expiredMembers + inactiveMembers counts no member
\* twice
C13_ExpiredInactiveDisjoint ==
    /\ resp.op = "stats" =>
          resp.out.expiredMembers + resp.out.inactiveMembers
              <= resp.out.totalMembers
    /\ resp.op = "expired" => \A m \in Listed(resp.out) : ~Inactive(m)
    /\ resp.op = "hookStats" =>
          resp.out.expiredMembers =
              Cardinality({m \in HookExpired : ~Inactive(m)})

-----------------------------------------------------------------------------
(* The joined-this-month count: a store of two members whose joining dates
   lie around the current month, read at several times of day in several
   time zones *)

JoinDates ==
    {<<2024, 5, 31>>, <<2024, 6, 30>>, <<2024, 7, 1>>, <<2024, 7, 31>>,
     <<2024, 8, 1>>}

JoinMember(id, g, joiningDate) ==
    [row |-> TRUE,
     id |-> id,
     membershipPlanId |-> NoPlan,
     isPaid |-> Some(TRUE),
     nextBillDate |-> <<2024, 9, 1>>,
     name |-> "ann",
     joiningDate |-> joiningDate,
     isActive |-> Some(TRUE),
     gymId |-> g,
     createdAt |-> FirstInstant]

InitJoin ==
    /\ tz \in TimeZones
    /\ storageKind \in StorageKinds
    /\ now \in CalcInstants
    /\ membershipPlans = [p \in PlanIds |-> NoRow]
    /\ planIdCounter = 1
    /\ \E d1 \in JoinDates, g2 \in Gyms :
          members = [m \in MemberIds |->
                        IF m = 1 THEN JoinMember(1, 1, d1)
                        ELSE IF m = 2 THEN JoinMember(2, g2, <<2024, 7, 15>>)
                        ELSE NoRow]
    /\ memberIdCounter = 3
    /\ resp = Response("none", 0, 0, 0, NoOut)
    /\ InitAuth

NextJoin == \E g \in Gyms : GetDashboardStats(g)

SpecJoin == InitJoin /\ [][NextJoin]_vars

\* the calendar date c lies in the calendar month of the server's current
\* date
InCurrentMonth(c) ==
    LET today == LocalDate(now, tz) IN c[1] = today[1] /\ c[2] = today[2]

\* C15: monthlyJoined is the number of the gym's members whose joiningDate
\* lies in the current calendar month, from its first day to its last
C15_JoinedThisMonth ==
    resp.op = "stats" =>
        resp.out.monthlyJoined =
            Cardinality({m \in GymMembers(resp.gym) :
                            InCurrentMonth(members[m].joiningDate)})

-----------------------------------------------------------------------------
(* The member list on its own: a store of two members read through
   GET /api/members with each filter, page and page size.  Every such store
   is reached by enrolling the members and changing their details. *)

ListNames == {<<"A", "n", "n">>, <<"B", "o">>}
ListDates == {<<2024, 6, 29>>, <<2024, 7, 11>>}

ListMember(id, g, name, nextBillDate, isActive, createdAt) ==
    [row |-> TRUE,
     id |-> id,
     membershipPlanId |-> NoPlan,
     isPaid |-> Some(TRUE),
     nextBillDate |-> nextBillDate,
     name |-> name,
     joiningDate |-> <<2024, 6, 1>>,
     isActive |-> isActive,
     gymId |-> g,
     createdAt |-> createdAt]

InitList ==
    /\ tz = 0
    /\ storageKind \in StorageKinds
    /\ now = LaterInstant
    /\ membershipPlans = [p \in PlanIds |-> NoRow]
    /\ planIdCounter = 1
    /\ \E n1 \in ListNames, n2 \in ListNames, d1 \in ListDates,
          d2 \in ListDates, a1 \in {Some(TRUE), Some(FALSE)}, g2 \in Gyms,
          c2 \in {FirstInstant, FirstInstant + 1} :
          members = [m \in MemberIds |->
                        IF m = 1
                        THEN ListMember(1, 1, n1, d1, a1, FirstInstant)
                        ELSE IF m = 2
                        THEN ListMember(2, g2, n2, d2, Some(TRUE), c2)
                        ELSE NoRow]
    /\ memberIdCounter = 3
    /\ resp = Response("none", 0, 0, 0, NoOut)
    /\ InitAuth

ListFilters ==
    [name : {Undefined, Some(<<"a", "n">>), Some(<<"A", "N">>),
             Some(<<"n", "_">>)},
     status : {Undefined}]
    \cup [name : {Undefined},
          status : {Some("active"), Some("inactive"), Some("expired")}]

NextList ==
    \E g \in Gyms, filter \in ListFilters, page \in {0, 1}, limit \in {0, 2} :
        GetMembers(g, filter, page, limit)

SpecList == InitList /\ [][NextList]_vars

\* the response is a list, by status only, that holds every row it kept
WholeListBy(status) ==
    /\ resp.op = "list"
    /\ resp.out.filter = [status |-> Some(status), name |-> Undefined]
    /\ resp.out.page = 1
    /\ resp.out.total <= resp.out.limit

\* C14: the status filter of the list uses the buckets of the badge: the
\* filter 'expired' returns the gym's members badged Expired, the filter
\* 'inactive' those badged Inactive, and the filter 'active' returns no
\* member badged Expired or Inactive
C14_FilterMatchesBadge ==
    LET own == GymMembers(resp.gym)
        badge(m) == getMemberStatusBadge(members[m]) IN
    /\ WholeListBy("expired") =>
          Listed(resp.out) = {m \in own : badge(m) = "Expired"}
    /\ WholeListBy("inactive") =>
          Listed(resp.out) = {m \in own : badge(m) = "Inactive"}
    /\ WholeListBy("active") =>
          \A m \in Listed(resp.out) : badge(m) \notin {"Expired", "Inactive"}

\* part occurs in str when the case of letters is ignored
ContainsIgnoringCase(str, part) ==
    \E i \in 0..(Len(str) - Len(part)) :
        \A k \in 1..Len(part) :
            toLowerCase(<<str[i + k]>>) = toLowerCase(<<part[k]>>)

\* C17: in both storages the list filtered by a name holds the gym's members
\* whose name contains the filter string, the case of letters ignored
C17_NameFilterIgnoresCase ==
    (/\ resp.op = "list"
     /\ resp.out.filter.name # Undefined
     /\ resp.out.filter.status = Undefined
     /\ resp.out.page = 1
     /\ resp.out.total <= resp.out.limit)
    => Listed(resp.out) =
          {m \in GymMembers(resp.gym) :
              ContainsIgnoringCase(members[m].name, resp.out.filter.name[1])}

-----------------------------------------------------------------------------
(* The pages of the member list: a store of two members, created at the
   same instant or one after the other, read page by page *)

InitPages ==
    /\ tz = 0
    /\ storageKind \in StorageKinds
    /\ now = LaterInstant
    /\ membershipPlans = [p \in PlanIds |-> NoRow]
    /\ planIdCounter = 1
    /\ \E a1 \in {Some(TRUE), Some(FALSE)}, g2 \in Gyms,
          c2 \in {FirstInstant, FirstInstant + 1} :
          members = [m \in MemberIds |->
                        IF m = 1
                        THEN ListMember(1, 1, <<"A", "n", "n">>,
                                        <<2024, 7, 11>>, a1, FirstInstant)
                        ELSE IF m = 2
                        THEN ListMember(2, g2, <<"B", "o">>, <<2024, 7, 11>>,
                                        Some(TRUE), c2)
                        ELSE NoRow]
    /\ memberIdCounter = 3
    /\ resp = Response("none", 0, 0, 0, NoOut)
    /\ InitAuth

PageFilters == [name : {Undefined}, status : {Undefined, Some("active")}]
ListPages == 0..3
ListLimits == 0..2

NextPages ==
    \E g \in Gyms, filter \in PageFilters, page \in ListPages,
       limit \in ListLimits : GetMembers(g, filter, page, limit)

SpecPages == InitPages /\ [][NextPages]_vars

\* the response is a page of the list that the request's page and limit
\* name: the members at positions (page-1)*limit+1 .. min(page*limit, total)
\* of the filtered rows in descending order of creation, with the total and
\* the number of pages
PageAsStated ==
    resp.op = "list" =>
        LET rows == FilteredMembers(resp.gym, resp.out.filter)
            p == resp.out.page
            L == resp.out.limit IN
        /\ resp.out.total = Cardinality(rows)
        /\ resp.out.totalPages = Ceil(Cardinality(rows), L)
        /\ \E f \in ListsOf(rows) :
              /\ \A i, j \in DOMAIN f :
                    i < j => members[f[i]].createdAt >= members[f[j]].createdAt
              /\ resp.out.members =
                    [k \in 1..((IF p * L < Len(f) THEN p * L ELSE Len(f))
                                  - (p - 1) * L) |-> f[(p - 1) * L + k]]

\* two requests in a row for different pages of the same list
OtherPageStep ==
    /\ resp.op = "list" /\ resp'.op = "list"
    /\ resp'.gym = resp.gym
    /\ resp'.out.filter = resp.out.filter
    /\ resp'.out.limit = resp.out.limit
    /\ resp'.out.page # resp.out.page

\* C16: every response of GET /api/members is the page its page and limit
\* name, with total and totalPages = ceil(total / limit), and over an
\* unchanged store two different pages of the same list share no member, so
\* that the pages 1..totalPages hold every filtered member once
C16_Pagination ==
    [][/\ PageAsStated'
       /\ OtherPageStep =>
             Listed(resp.out) \cap Listed(resp'.out) = {}]_vars

-----------------------------------------------------------------------------
(* Validation: requests whose body lacks one key of the insert schema *)

\* the columns of members that insertMemberSchema keeps, and those among
\* them that are NOT NULL without a default
MemberKeys ==
    {"name", "phone", "address", "photo", "joiningDate", "nextBillDate",
     "isActive", "isPaid", "membershipPlanId", "gymId"}
RequiredMemberKeys == {"name", "phone", "joiningDate", "nextBillDate", "gymId"}

\* the same for membership_plans and insertMembershipPlanSchema
PlanKeys == {"name", "durationMonths", "price", "description", "gymId"}
RequiredPlanKeys == {"name", "durationMonths", "price", "gymId"}

\* the body of a member request that holds the keys given
KeyedMemberBody(keys) ==
    [membershipPlanId |->
         IF "membershipPlanId" \in keys THEN Some(NoPlan) ELSE Undefined,
     isPaid |-> IF "isPaid" \in keys THEN Some(TRUE) ELSE Undefined,
     nextBillDate |-> <<2024, 7, 3>>,
     valid |-> RequiredMemberKeys \subseteq keys,
     name |-> "ann",
     joiningDate |-> <<2024, 6, 1>>,
     isActive |-> IF "isActive" \in keys THEN Some(TRUE) ELSE Undefined]

\* the body of a plan request that holds the keys given
KeyedPlanBody(keys) ==
    [price |-> 30, valid |-> RequiredPlanKeys \subseteq keys,
     durationMonths |-> 1]

NextValidate ==
    \/ \E g \in Gyms, k \in PlanKeys \cup {"none"} :
          PostMembershipPlan(g, KeyedPlanBody(PlanKeys \ {k}))
    \/ \E g \in Gyms, k \in MemberKeys \cup {"none"} :
          PostMember(g, KeyedMemberBody(MemberKeys \ {k}))

SpecValidate == Init /\ [][NextValidate]_vars

\* C18: an enrolment whose body lacks name, phone, address or joiningDate,
\* and a plan creation whose body lacks name or durationMonths, is answered
\* 400 and changes nothing
C18_MissingFieldRejected ==
    [][(\/ /\ resp'.op = "enroll"
           /\ \E k \in {"name", "phone", "address", "joiningDate"} :
                 PostMember(resp'.gym, KeyedMemberBody(MemberKeys \ {k}))
        \/ /\ resp'.op = "createPlan"
           /\ \E k \in {"name", "durationMonths"} :
                 PostMembershipPlan(resp'.gym, KeyedPlanBody(PlanKeys \ {k})))
       => resp'.status = 400 /\ StoreUnchanged]_vars

-----------------------------------------------------------------------------
(* Registration: POST /api/register *)

\* insertGymSchema.parse(req.body): a body the schema accepts
GymBody(username, email) ==
    [username |-> username, email |-> email, valid |-> TRUE]

\* a body the schema rejects
InvalidGymBody ==
    [username |-> "ann", email |-> "ann@gym.test", valid |-> FALSE]

\* storage.getGymByUsername(username): whether a gym is found
getGymByUsername(username) ==
    \E i \in GymIds : gyms[i].row /\ gyms[i].username = username

\* storage.getGymByEmail(email): whether a gym is found
getGymByEmail(email) ==
    \E i \in GymIds : gyms[i].row /\ gyms[i].email = email

\* the handlers that have been called and have not answered
InFlight == {r \in RegIds : reg[r].pc \notin {"idle", "done"}}

Answered(r, body, status) ==
    [username |-> body.username, email |-> body.email, pc |-> "done",
     status |-> status]

Waiting(r, body, pc) ==
    [username |-> body.username, email |-> body.email, pc |-> pc,
     status |-> 0]

Message(text) == [message |-> text]

\* The handler is called.  It runs to its first await that leaves the turn of
\* the event loop.  The methods of MemStorage read their map when they are
\* called and their promises are settled within the turn, so that both
\* lookups are made before any other handler runs and the handler first
\* rests in hashPassword.  With DatabaseStorage each lookup is a query whose
\* result arrives in a later turn.
RegisterBegin(r, body) ==
    /\ reg[r].pc \in {"idle", "done"}
    /\ gymIdCounter + Cardinality(InFlight) <= MaxGyms
    /\ IF ~body.valid
       THEN /\ reg' = [reg EXCEPT ![r] = Answered(r, body, 400)]
            /\ resp' = Response("register", 0, r, 400, Message("invalid"))
       ELSE IF storageKind = "DatabaseStorage"
       THEN /\ reg' = [reg EXCEPT ![r] = Waiting(r, body, "username")]
            /\ UNCHANGED resp
       ELSE IF getGymByUsername(body.username)
       THEN /\ reg' = [reg EXCEPT ![r] = Answered(r, body, 400)]
            /\ resp' = Response("register", 0, r, 400,
                                Message("Username already exists"))
       ELSE IF getGymByEmail(body.email)
       THEN /\ reg' = [reg EXCEPT ![r] = Answered(r, body, 400)]
            /\ resp' = Response("register", 0, r, 400,
                                Message("Email already exists"))
       ELSE /\ reg' = [reg EXCEPT ![r] = Waiting(r, body, "hash")]
            /\ UNCHANGED resp
    /\ UNCHANGED <<gyms, gymIdCounter, otps, otpIdCounter, rst, rnw, table>>
    /\ UNCHANGED <<tz, storageKind, now, membershipPlans, planIdCounter,
                   members, memberIdCounter>>

\* the database answers the query by username and the handler goes on
RegisterUsername(r) ==
    /\ reg[r].pc = "username"
    /\ IF getGymByUsername(reg[r].username)
       THEN /\ reg' = [reg EXCEPT ![r] = Answered(r, reg[r], 400)]
            /\ resp' = Response("register", 0, r, 400,
                                Message("Username already exists"))
       ELSE /\ reg' = [reg EXCEPT ![r] = Waiting(r, reg[r], "email")]
            /\ UNCHANGED resp
    /\ UNCHANGED <<gyms, gymIdCounter, otps, otpIdCounter, rst, rnw, table>>
    /\ UNCHANGED <<tz, storageKind, now, membershipPlans, planIdCounter,
                   members, memberIdCounter>>

\* the database answers the query by email and the handler goes on
RegisterEmail(r) ==
    /\ reg[r].pc = "email"
    /\ IF getGymByEmail(reg[r].email)
       THEN /\ reg' = [reg EXCEPT ![r] = Answered(r, reg[r], 400)]
            /\ resp' = Response("register", 0, r, 400,
                                Message("Email already exists"))
       ELSE /\ reg' = [reg EXCEPT ![r] = Waiting(r, reg[r], "hash")]
            /\ UNCHANGED resp
    /\ UNCHANGED <<gyms, gymIdCounter, otps, otpIdCounter, rst, rnw, table>>
    /\ UNCHANGED <<tz, storageKind, now, membershipPlans, planIdCounter,
                   members, memberIdCounter>>

\* hashPassword is settled and storage.createGym runs.  MemStorage takes the
\* next id and sets the row.  The insert of DatabaseStorage carries no id,
\* gyms.id is a text primary key without a default, and the statement fails
\* on it; the error goes to next(error).
RegisterCreate(r) ==
    /\ reg[r].pc = "hash"
    /\ IF storageKind = "MemStorage"
       THEN /\ gyms' = [gyms EXCEPT ![gymIdCounter] =
                           GymRow(gymIdCounter, reg[r].username,
                                  reg[r].email)]
            /\ gymIdCounter' = gymIdCounter + 1
            /\ reg' = [reg EXCEPT ![r] = Answered(r, reg[r], 201)]
            /\ resp' = Response("register", gymIdCounter, r, 201,
                                gyms'[gymIdCounter])
       ELSE /\ reg' = [reg EXCEPT ![r] = Answered(r, reg[r],
                                                  UnhandledStatus)]
            /\ resp' = Response("register", 0, r, UnhandledStatus, NoOut)
            /\ UNCHANGED <<gyms, gymIdCounter>>
    /\ UNCHANGED <<otps, otpIdCounter, rst, rnw, table>>
    /\ UNCHANGED <<tz, storageKind, now, membershipPlans, planIdCounter,
                   members, memberIdCounter>>

\* MemStorage starts empty; the table of the database holds one gym
InitReg ==
    /\ tz = 0
    /\ storageKind \in StorageKinds
    /\ now = FirstInstant
    /\ membershipPlans = [p \in PlanIds |-> NoRow]
    /\ planIdCounter = 1
    /\ members = [m \in MemberIds |-> NoRow]
    /\ memberIdCounter = 1
    /\ resp = Response("start", 0, 0, 0, NoOut)
    /\ gyms = [i \in GymIds |->
                  IF storageKind = "DatabaseStorage" /\ i = 1
                  THEN GymRow(1, "ann", "ann@gym.test") ELSE NoRow]
    /\ gymIdCounter = IF storageKind = "DatabaseStorage" THEN 2 ELSE 1
    /\ otps = [i \in OtpIds |-> NoRow]
    /\ otpIdCounter = 1
    /\ reg = [r \in RegIds |-> IdleHandler]
    /\ rst = [r \in ResetIds |-> IdleReset]
    /\ rnw = IdleRenew
    /\ table = ClosedTable

GymBodies ==
    {GymBody(u, e) : u \in Usernames, e \in Emails} \cup {InvalidGymBody}

NextReg ==
    \/ \E r \in RegIds, body \in GymBodies : RegisterBegin(r, body)
    \/ \E r \in RegIds : RegisterUsername(r)
    \/ \E r \in RegIds : RegisterEmail(r)
    \/ \E r \in RegIds : RegisterCreate(r)

SpecReg == InitReg /\ [][NextReg]_vars

\* C19: no two stored gyms share a username or an email, whatever
\* registrations were made and however their handlers took turns; a
\* registration that repeats the username or the email of a stored gym
\* therefore creates no gym.
C19_GymsUnique ==
    \A i, j \in GymIds :
        i # j /\ gyms[i].row /\ gyms[j].row =>
            /\ gyms[i].username # gyms[j].username
            /\ gyms[i].email # gyms[j].email

-----------------------------------------------------------------------------
(* Password reset: POST /api/forgot-password *)

\* forgotPasswordSchema.parse(req.body): a body whose email is well formed
ForgotBody(email) == [email |-> email, valid |-> TRUE]

\* a body the schema rejects
InvalidForgotBody == [email |-> "ann", valid |-> FALSE]

\* a well-formed address that no gym has
UnknownEmail == "eve@gym.test"

ForgotBodies ==
    {ForgotBody(email) : email \in Emails \cup {UnknownEmail}}
        \cup {InvalidForgotBody}

\* generateOTP(): six digits drawn at random, as a string
OtpCodes == {"100000", "999999"}

\* the minutes an OTP stays valid
OtpMinutes == 15

OtpRow(id, email, code) ==
    [row |-> TRUE, id |-> id, email |-> email, code |-> code,
     createdAt |-> now, expiresAt |-> now + OtpMinutes]

GenericText == "If your email is registered, you will receive an OTP"

\* the request of a password reset and the answer to it
ForgotResponse(body, status, out) ==
    [id |-> 0, status |-> status, gym |-> 0, op |-> "forgot", out |-> out,
     body |-> body]

\* the handler with an answer of its own for an address that no gym has
ForgotPasswordRevealing(body) ==
    /\ IF ~body.valid
       THEN /\ resp' = ForgotResponse(body, 400, Message("invalid"))
            /\ UNCHANGED <<otps, otpIdCounter>>
       ELSE IF ~getGymByEmail(body.email)
       THEN /\ resp' = ForgotResponse(body, 404, Message("Email not found"))
            /\ UNCHANGED <<otps, otpIdCounter>>
       ELSE /\ otpIdCounter <= MaxOtps
            /\ \E code \in OtpCodes :
                  otps' = [otps EXCEPT ![otpIdCounter] =
                              OtpRow(otpIdCounter, body.email, code)]
            /\ otpIdCounter' = otpIdCounter + 1
            /\ resp' = ForgotResponse(body, 200, Message(GenericText))
    /\ UNCHANGED <<gyms, gymIdCounter, reg, rst, rnw, table>>
    /\ UNCHANGED <<tz, storageKind, now, membershipPlans, planIdCounter,
                   members, memberIdCounter>>

ForgotPassword(body) ==
    /\ IF ~body.valid
       THEN /\ resp' = ForgotResponse(body, 400, Message("invalid"))
            /\ UNCHANGED <<otps, otpIdCounter>>
       ELSE IF ~getGymByEmail(body.email)
       THEN /\ resp' = ForgotResponse(body, 200, Message(GenericText))
            /\ UNCHANGED <<otps, otpIdCounter>>
       ELSE /\ otpIdCounter <= MaxOtps
            /\ \E code \in OtpCodes :
                  otps' = [otps EXCEPT ![otpIdCounter] =
                              OtpRow(otpIdCounter, body.email, code)]
            /\ otpIdCounter' = otpIdCounter + 1
            /\ resp' = ForgotResponse(body, 200, Message(GenericText))
    /\ UNCHANGED <<gyms, gymIdCounter, reg, rst, rnw, table>>
    /\ UNCHANGED <<tz, storageKind, now, membershipPlans, planIdCounter,
                   members, memberIdCounter>>

NextForgot ==
    \/ Tick
    \/ \E body \in ForgotBodies : ForgotPassword(body)

SpecForgot == Init /\ [][NextForgot]_vars

-----------------------------------------------------------------------------
(* Password reset: POST /api/verify-otp and POST /api/reset-password *)

\* verifyOtpSchema.parse(req.body): a body the schema accepts
VerifyBody(email, code) == [email |-> email, code |-> code, valid |-> TRUE]

\* a body the schema rejects: the code has five characters
InvalidVerifyBody ==
    [email |-> "ann@gym.test", code |-> "10000", valid |-> FALSE]

\* resetPasswordSchema.parse(req.body): a body the schema accepts
ResetBody(email, code, password) ==
    [password |-> password, email |-> email, code |-> code, valid |-> TRUE]

\* a body the schema rejects: the password has five characters
InvalidResetBody ==
    [password |-> "short", email |-> "ann@gym.test", code |-> "100000",
     valid |-> FALSE]

\* the stored OTPs of the email and the code, valid whatever the time
getValidOtpAnyTime(email, code) ==
    {i \in OtpIds : otps[i].row /\ otps[i].email = email
                       /\ otps[i].code = code}

\* storage.getValidOtp(email, code): the ids of the rows that may be
\* returned, none if the set is empty.  MemStorage returns the first row of
\* the map whose expiry is after now; the query of DatabaseStorage has no
\* order and keeps the rows whose expiry is now or later.
getValidOtp(email, code) ==
    LET match == {i \in OtpIds :
                     /\ otps[i].row
                     /\ otps[i].email = email
                     /\ otps[i].code = code
                     /\ IF storageKind = "MemStorage"
                        THEN otps[i].expiresAt > now
                        ELSE otps[i].expiresAt >= now}
    IN  IF storageKind = "MemStorage"
        THEN {i \in match : \A j \in match : i <= j}
        ELSE match

\* the row of storage.getGymByEmail(email): the ids that may be returned
GymsByEmail(email) ==
    LET match == {i \in GymIds : gyms[i].row /\ gyms[i].email = email}
    IN  IF storageKind = "MemStorage"
        THEN {i \in match : \A j \in match : i <= j}
        ELSE match

\* storage.updateGymPassword(id, password)
updateGymPassword(id, password) ==
    [gyms EXCEPT ![id] = [@ EXCEPT !.password = password]]

\* a delete that leaves the row
deleteOtpKeep(id) == otps

\* storage.deleteOtp(id): a row that is gone already is left alone
deleteOtp(id) == [otps EXCEPT ![id] = NoRow]

\* a request of the password reset routes and the answer to it
OtpResponse(op, body, status, text) ==
    [id |-> 0, status |-> status, gym |-> 0, op |-> op,
     out |-> Message(text), body |-> body]

InvalidOtpText == "Invalid or expired OTP"

\* POST /api/verify-otp
VerifyOtp(body) ==
    /\ resp' = IF ~body.valid
               THEN OtpResponse("verify", body, 400, "invalid")
               ELSE IF getValidOtp(body.email, body.code) = {}
               THEN OtpResponse("verify", body, 400, InvalidOtpText)
               ELSE OtpResponse("verify", body, 200,
                                "OTP verified successfully")
    /\ UNCHANGED authVars
    /\ UNCHANGED <<tz, storageKind, now, membershipPlans, planIdCounter,
                   members, memberIdCounter>>

ResetAnswered(r, body, status) ==
    [rst[r] EXCEPT !.pc = "done", !.email = body.email, !.code = body.code,
                   !.password = body.password, !.status = status]

ResetWaiting(r, body, pc, otp, gym) ==
    [password |-> body.password, email |-> body.email, pc |-> pc,
     status |-> 0, code |-> body.code, otp |-> otp, gym |-> gym]

BodyOf(h) ==
    [password |-> h.password, email |-> h.email, code |-> h.code,
     valid |-> TRUE]

\* The handler of POST /api/reset-password is called and runs to its first
\* await that leaves the turn of the event loop.  With MemStorage both
\* lookups are made within the turn and the handler first rests in
\* hashPassword; with DatabaseStorage it rests in the query for the OTP.
ResetBegin(r, body) ==
    /\ rst[r].pc \in {"idle", "done"}
    /\ IF ~body.valid
       THEN /\ rst' = [rst EXCEPT ![r] = ResetAnswered(r, body, 400)]
            /\ resp' = OtpResponse("reset", body, 400, "invalid")
       ELSE IF storageKind = "DatabaseStorage"
       THEN /\ rst' = [rst EXCEPT ![r] = ResetWaiting(r, body, "otp", 0, 0)]
            /\ UNCHANGED resp
       ELSE IF getValidOtp(body.email, body.code) = {}
       THEN /\ rst' = [rst EXCEPT ![r] = ResetAnswered(r, body, 400)]
            /\ resp' = OtpResponse("reset", body, 400, InvalidOtpText)
       ELSE IF GymsByEmail(body.email) = {}
       THEN /\ rst' = [rst EXCEPT ![r] = ResetAnswered(r, body, 400)]
            /\ resp' = OtpResponse("reset", body, 400, "Email not found")
       ELSE /\ \E otp \in getValidOtp(body.email, body.code),
                  gym \in GymsByEmail(body.email) :
                  rst' = [rst EXCEPT ![r] =
                             ResetWaiting(r, body, "hash", otp, gym)]
            /\ UNCHANGED resp
    /\ UNCHANGED <<gyms, gymIdCounter, otps, otpIdCounter, reg, rnw, table>>
    /\ UNCHANGED <<tz, storageKind, now, membershipPlans, planIdCounter,
                   members, memberIdCounter>>

\* the database answers the query for the OTP and the handler goes on
ResetOtp(r) ==
    /\ rst[r].pc = "otp"
    /\ IF getValidOtp(rst[r].email, rst[r].code) = {}
       THEN /\ rst' = [rst EXCEPT ![r] = ResetAnswered(r, rst[r], 400)]
            /\ resp' = OtpResponse("reset", BodyOf(rst[r]), 400,
                                   InvalidOtpText)
       ELSE /\ \E otp \in getValidOtp(rst[r].email, rst[r].code) :
                  rst' = [rst EXCEPT ![r] =
                             ResetWaiting(r, rst[r], "gym", otp, 0)]
            /\ UNCHANGED resp
    /\ UNCHANGED <<gyms, gymIdCounter, otps, otpIdCounter, reg, rnw, table>>
    /\ UNCHANGED <<tz, storageKind, now, membershipPlans, planIdCounter,
                   members, memberIdCounter>>

\* the database answers the query for the gym and the handler goes on
ResetGym(r) ==
    /\ rst[r].pc = "gym"
    /\ IF GymsByEmail(rst[r].email) = {}
       THEN /\ rst' = [rst EXCEPT ![r] = ResetAnswered(r, rst[r], 400)]
            /\ resp' = OtpResponse("reset", BodyOf(rst[r]), 400,
                                   "Email not found")
       ELSE /\ \E gym \in GymsByEmail(rst[r].email) :
                  rst' = [rst EXCEPT ![r] =
                             ResetWaiting(r, rst[r], "hash", rst[r].otp,
                                          gym)]
            /\ UNCHANGED resp
    /\ UNCHANGED <<gyms, gymIdCounter, otps, otpIdCounter, reg, rnw, table>>
    /\ UNCHANGED <<tz, storageKind, now, membershipPlans, planIdCounter,
                   members, memberIdCounter>>

\* hashPassword is settled and storage.updateGymPassword runs.  MemStorage
\* sets the password, deletes the OTP and the handler answers, all within
\* the turn; with DatabaseStorage the handler rests in the delete.
ResetHash(r) ==
    /\ rst[r].pc = "hash"
    /\ \E salt \in Salts :
          gyms' = updateGymPassword(rst[r].gym,
                                    hashPassword(rst[r].password, salt))
    /\ IF storageKind = "MemStorage"
       THEN /\ otps' = deleteOtp(rst[r].otp)
            /\ rst' = [rst EXCEPT ![r] = ResetAnswered(r, rst[r], 200)]
            /\ resp' = OtpResponse("reset", BodyOf(rst[r]), 200,
                                   "Password reset successfully")
       ELSE /\ rst' = [rst EXCEPT ![r] = [@ EXCEPT !.pc = "delete"]]
            /\ UNCHANGED <<otps, resp>>
    /\ UNCHANGED <<gymIdCounter, otpIdCounter, reg, rnw, table>>
    /\ UNCHANGED <<tz, storageKind, now, membershipPlans, planIdCounter,
                   members, memberIdCounter>>

\* the database deletes the OTP and the handler answers
ResetDelete(r) ==
    /\ rst[r].pc = "delete"
    /\ otps' = deleteOtp(rst[r].otp)
    /\ rst' = [rst EXCEPT ![r] = ResetAnswered(r, rst[r], 200)]
    /\ resp' = OtpResponse("reset", BodyOf(rst[r]), 200,
                           "Password reset successfully")
    /\ UNCHANGED <<gyms, gymIdCounter, otpIdCounter, reg, rnw, table>>
    /\ UNCHANGED <<tz, storageKind, now, membershipPlans, planIdCounter,
                   members, memberIdCounter>>

\* the instants around the expiry of an OTP made at the first instant
OtpInstants == {FirstInstant + k : k \in {0, OtpMinutes - 1, OtpMinutes,
                                          OtpMinutes + 1}}

\* time passes
Pass ==
    /\ \E t \in OtpInstants : t > now /\ now' = t
    /\ resp' = Response("tick", 0, 0, 0, NoOut)
    /\ UNCHANGED authVars
    /\ UNCHANGED <<tz, storageKind, membershipPlans, planIdCounter, members,
                   memberIdCounter>>

NewPasswords == {"hunter2"}

VerifyBodies ==
    {VerifyBody(e, c) : e \in Emails, c \in OtpCodes}
        \cup {InvalidVerifyBody}

ResetBodies ==
    {ResetBody(e, c, p) : e \in Emails, c \in OtpCodes, p \in NewPasswords}
        \cup {InvalidResetBody}

NextOtp ==
    \/ Pass
    \/ \E email \in Emails : ForgotPassword(ForgotBody(email))
    \/ \E body \in VerifyBodies : VerifyOtp(body)
    \/ \E body \in ResetBodies : ResetBegin(1, body)
    \/ ResetOtp(1)
    \/ ResetGym(1)
    \/ ResetHash(1)
    \/ ResetDelete(1)

\* one reset-password request at a time
SpecOtp == Init /\ [][NextOtp]_vars

\* the stored OTPs of the email and the code that were issued no more than
\* fifteen minutes ago
UsableOtps(email, code) ==
    {i \in OtpIds : /\ otps[i].row
                    /\ otps[i].email = email
                    /\ otps[i].code = code
                    /\ now <= otps[i].createdAt + OtpMinutes}

\* the step in which handler r of reset-password looks the OTP up
ResetLookup(r, email, code) ==
    \/ /\ storageKind = "MemStorage"
       /\ \E p \in NewPasswords : ResetBegin(r, ResetBody(email, code, p))
    \/ /\ storageKind = "DatabaseStorage"
       /\ rst[r].email = email
       /\ rst[r].code = code
       /\ ResetOtp(r)

\* C21: verify-otp and reset-password accept an OTP only when a stored OTP
\* has the email and the code and was issued no more than fifteen minutes
\* ago; when no such OTP is stored, reset-password answers 400 'Invalid or
\* expired OTP' and leaves the gyms and the OTPs as they are.
C21_OtpAcceptedOnlyIfValid ==
    [][/\ \A vbody \in VerifyBodies :
             VerifyOtp(vbody) /\ resp'.status = 200 =>
                 UsableOtps(vbody.email, vbody.code) # {}
       /\ \A r \in ResetIds, email \in Emails, code \in OtpCodes :
             ResetLookup(r, email, code) =>
                 /\ rst'[r].pc # "done" =>
                        rst'[r].otp \in UsableOtps(email, code)
                 /\ UsableOtps(email, code) = {} =>
                        /\ rst'[r].pc = "done"
                        /\ rst'[r].status = 400
                        /\ resp'.status = 400
                        /\ resp'.out = Message(InvalidOtpText)
                        /\ gyms' = gyms
                        /\ otps' = otps]_vars

\* reset-password was refused for an email and a code whose OTP is stored
\* and has expired
C21_Witness ==
    /\ resp.op = "reset"
    /\ resp.status = 400
    /\ resp.out = Message(InvalidOtpText)
    /\ \E i \in OtpIds :
          /\ otps[i].row
          /\ otps[i].email = resp.body.email
          /\ otps[i].code = resp.body.code
          /\ now > otps[i].createdAt + OtpMinutes

\* C22: the step in which reset-password answers 200 leaves the OTP it used
\* deleted; verify-otp changes no OTP; and a verify-otp or reset-password
\* for an email and a code of which no OTP is stored (the used one is gone
\* and there is no other) is refused with 400.
C22_OtpConsumedByReset ==
    [][/\ \A r \in ResetIds :
             /\ rst[r].pc # "done"
             /\ rst'[r].pc = "done"
             /\ rst'[r].status = 200
             => /\ ~otps'[rst'[r].otp].row
                /\ rst[r].otp = rst'[r].otp
       /\ \A vbody \in VerifyBodies :
             VerifyOtp(vbody) =>
                 /\ otps' = otps
                 /\ getValidOtpAnyTime(vbody.email, vbody.code) = {} =>
                        resp'.status = 400
       /\ \A r \in ResetIds, email \in Emails, code \in OtpCodes :
             /\ ResetLookup(r, email, code)
             /\ getValidOtpAnyTime(email, code) = {}
             => /\ rst'[r].pc = "done"
                /\ rst'[r].status = 400]_vars

\* a password was reset with an OTP, and then verify-otp with the same email
\* and code was refused
C22_Witness ==
    /\ resp.op = "verify"
    /\ resp.status = 400
    /\ resp.out = Message(InvalidOtpText)
    /\ rst[1].pc = "done"
    /\ rst[1].status = 200
    /\ rst[1].email = resp.body.email
    /\ rst[1].code = resp.body.code
    /\ ~otps[rst[1].otp].row

-----------------------------------------------------------------------------
(* Two reset-password requests at a time *)

RacePasswords == {"hunter2", "letmein"}

RaceBodies ==
    {ResetBody("ann@gym.test", c, p) : c \in OtpCodes, p \in RacePasswords}

NextRace ==
    \/ Pass
    \/ ForgotPassword(ForgotBody("ann@gym.test"))
    \/ \E r \in ResetIds, body \in RaceBodies : ResetBegin(r, body)
    \/ \E r \in ResetIds : ResetOtp(r)
    \/ \E r \in ResetIds : ResetGym(r)
    \/ \E r \in ResetIds : ResetHash(r)
    \/ \E r \in ResetIds : ResetDelete(r)

SpecRace == Init /\ [][NextRace]_vars

\* C28: no two reset-password handlers that took the same OTP have both set
\* the password of the gym and answered 200.
C28_OneResetPerOtp ==
    \A r, q \in ResetIds :
        /\ r # q
        /\ rst[r].pc = "done" /\ rst[r].status = 200
        /\ rst[q].pc = "done" /\ rst[q].status = 200
        => rst[r].otp # rst[q].otp

-----------------------------------------------------------------------------
(* The durations and prices of plans *)

PlanDurations == {0 - 1, 0, 1, 12}
PlanPrices == {0 - 5, 0, 30}

PricedPlanBodies ==
    {PricedPlanBody(d, price) : d \in PlanDurations, price \in PlanPrices}
        \cup {InvalidPlanBody}

NextPlans ==
    \/ \E g \in Gyms, body \in PricedPlanBodies : PostMembershipPlan(g, body)
    \/ \E g \in Gyms, id \in PlanIds, body \in PricedPlanBodies :
          PutMembershipPlan(g, id, body)
    \/ \E g \in Gyms, id \in PlanIds : DeleteMembershipPlan(g, id)

SpecPlans == Init /\ [][NextPlans]_vars

\* C23: every stored plan has a durationMonths of at least 1 and a price of
\* at least 0, so that no create or update request with a smaller value
\* stores anything.
C23_PlanDurationAndPrice ==
    \A p \in PlanIds :
        membershipPlans[p].row =>
            /\ membershipPlans[p].durationMonths >= 1
            /\ membershipPlans[p].price >= 0

-----------------------------------------------------------------------------
(* Plans and the members that reference them, under Spec *)

\* C24: a plan update or a plan delete leaves every member in the store with
\* its nextBillDate, paid flag and active flag, the members of that plan
\* included.
C24_PlanEditKeepsMembers ==
    [][resp'.op \in {"updatePlan", "deletePlan"} =>
          \A m \in MemberIds :
              members[m].row =>
                  /\ members'[m].row
                  /\ members'[m].nextBillDate = members[m].nextBillDate
                  /\ members'[m].isPaid = members[m].isPaid
                  /\ members'[m].isActive = members[m].isActive]_vars

\* a plan that a member references was updated or deleted
C24_Witness ==
    /\ resp.op \in {"updatePlan", "deletePlan"}
    /\ resp.status \in {200, 204}
    /\ \E m \in MemberIds :
          members[m].row /\ members[m].membershipPlanId = resp.id

-----------------------------------------------------------------------------
(* The order of the expiring and expired lists, under SpecCalc *)

-----------------------------------------------------------------------------
(* The plan of a member and the gym of a member, under Spec *)

\* C26: the membershipPlanId of every member is empty or is the id of a
\* stored plan of the gym of the member.
C26_PlanReferenceIntegrity ==
    \A m \in MemberIds :
        members[m].row /\ members[m].membershipPlanId # NoPlan =>
            /\ getMembershipPlan(members[m].membershipPlanId).row
            /\ getMembershipPlan(members[m].membershipPlanId).gymId =
                  members[m].gymId

-----------------------------------------------------------------------------
(* Requests whose body names the other gym *)

OtherGym(g) == IF g = 1 THEN 2 ELSE 1

\* the body with the key gymId added: { ...memberData, gymId } of the routes
\* lets the id of the session win
WithGymId(body, g) == [gymId |-> g] @@ body

NextOwner ==
    \/ \E g \in Gyms, body \in {PlanBody(1)} : PostMembershipPlan(g, body)
    \/ \E g \in Gyms, body \in EnrollBodies :
          PostMember(g, WithGymId(body, OtherGym(g)))
    \/ \E g \in Gyms, id \in MemberIds, body \in UpdateBodies :
          PutMember(g, id, WithGymId(body, OtherGym(g)))
    \/ \E g \in Gyms, id \in MemberIds, body \in RenewBodies :
          PostMemberRenew(g, id, body)
    \/ \E g \in Gyms, id \in MemberIds : PatchMemberStatus(g, id, Some(FALSE))
    \/ \E g \in Gyms, id \in MemberIds : DeleteMember(g, id)

SpecOwner == Init /\ [][NextOwner]_vars

\* C27: an enrolment stores the member under the gym of the session, and no
\* step changes the gymId of a stored member, although the body of every
\* enrolment and update names the other gym.
C27_GymNeverChanges ==
    [][/\ resp'.op = "enroll" /\ resp'.status = 201 =>
             /\ members'[resp'.id].row
             /\ members'[resp'.id].gymId = resp'.gym
       /\ \A m \in MemberIds :
             members[m].row /\ members'[m].row =>
                 members'[m].gymId = members[m].gymId]_vars

\* a gym updated its member with a body that names the other gym
C27_Witness ==
    /\ resp.op = "update"
    /\ resp.status = 200
    /\ members[resp.id].row
    /\ members[resp.id].gymId = resp.gym

-----------------------------------------------------------------------------
(* Renewal while other requests for the member are served.  With MemStorage
   every await of the renew handler is settled within the turn of the event
   loop and the request is the one step PostMemberRenew.  With
   DatabaseStorage the handler rests in each query and other requests are
   served meanwhile. *)

\* the handler is called and sends the query for the member
RenewBegin(g, id, body) ==
    /\ storageKind = "DatabaseStorage"
    /\ rnw.pc = "idle"
    /\ rnw' = [IdleRenew EXCEPT
                  !.pc = "member", !.gym = g, !.id = id,
                  !.membershipPlanId = OrElse(body.membershipPlanId, NoPlan),
                  !.isPaid = body.isPaid]
    /\ UNCHANGED <<resp, gyms, gymIdCounter, otps, otpIdCounter, reg, rst,
                   table>>
    /\ UNCHANGED <<tz, storageKind, now, membershipPlans, planIdCounter,
                   members, memberIdCounter>>

\* the database answers with the member and the handler asks for the plan
RenewMember ==
    LET existingMember == getMember(rnw.id) IN
    /\ rnw.pc = "member"
    /\ IF ~existingMember.row \/ existingMember.gymId # rnw.gym
       THEN /\ resp' = Response("renew", rnw.gym, rnw.id, 404, NoOut)
            /\ rnw' = IdleRenew
       ELSE /\ rnw' = [rnw EXCEPT !.pc = "plan",
                                  !.existingMember = existingMember]
            /\ UNCHANGED resp
    /\ UNCHANGED <<gyms, gymIdCounter, otps, otpIdCounter, reg, rst,
                   table>>
    /\ UNCHANGED <<tz, storageKind, now, membershipPlans, planIdCounter,
                   members, memberIdCounter>>

\* the database answers with the plan; the handler computes the next bill
\* date from today and sends the update
RenewPlan ==
    LET plan == getMembershipPlan(rnw.membershipPlanId)
        today == now
        nextBillDate == addMonths(today, plan.durationMonths, tz) IN
    /\ rnw.pc = "plan"
    /\ IF ~plan.row
       THEN /\ resp' = Response("renew", rnw.gym, rnw.id, 404, NoOut)
            /\ rnw' = IdleRenew
       ELSE /\ rnw' = [rnw EXCEPT !.pc = "write",
                                  !.nextBillDate = format(nextBillDate, tz)]
            /\ UNCHANGED resp
    /\ UNCHANGED <<gyms, gymIdCounter, otps, otpIdCounter, reg, rst,
                   table>>
    /\ UNCHANGED <<tz, storageKind, now, membershipPlans, planIdCounter,
                   members, memberIdCounter>>

\* the database runs the update, which sets every column to the value of
\* { ...existingMember, membershipPlanId, isPaid, isActive, nextBillDate },
\* and the handler answers
RenewWrite ==
    /\ rnw.pc = "write"
    /\ IF ~PlanKeyOk(rnw.membershipPlanId)
       THEN /\ resp' = Response("renew", rnw.gym, rnw.id, UnhandledStatus,
                                NoOut)
            /\ UNCHANGED members
       ELSE IF ~getMember(rnw.id).row
       THEN /\ resp' = Response("renew", rnw.gym, rnw.id, 200, NoOut)
            /\ UNCHANGED members
       ELSE /\ members' =
                updateMember(rnw.id,
                    [membershipPlanId |-> Some(rnw.membershipPlanId),
                     isPaid |-> Some(OrElse(rnw.isPaid, TRUE)),
                     nextBillDate |-> Some(rnw.nextBillDate),
                     name |-> Some(rnw.existingMember.name),
                     joiningDate |-> Some(rnw.existingMember.joiningDate),
                     isActive |-> Some(TRUE),
                     gymId |-> Some(rnw.existingMember.gymId)])
            /\ resp' = Response("renew", rnw.gym, rnw.id, 200, NoOut)
    /\ rnw' = IdleRenew
    /\ UNCHANGED <<gyms, gymIdCounter, otps, otpIdCounter, reg, rst,
                   table>>
    /\ UNCHANGED <<tz, storageKind, now, membershipPlans, planIdCounter,
                   memberIdCounter>>

\* an update of the details of the member: the name and the joining date
\* are new
DetailBodies ==
    {[b EXCEPT !.name = "bea", !.joiningDate = <<2024, 6, 2>>] :
        b \in {u \in UpdateBodies : u.valid}}

StaleRenewBodies == RenewBodiesOf({Some(1)}, {Undefined})

NextStale ==
    \/ PostMembershipPlan(1, PlanBody(1))
    \/ \E body \in {b \in EnrollBodies : b.valid} : PostMember(1, body)
    \/ \E body \in DetailBodies : PutMember(1, 1, body)
    \/ \E a \in {Some(TRUE), Some(FALSE)} : PatchMemberStatus(1, 1, a)
    \/ /\ storageKind = "MemStorage"
       /\ \E body \in StaleRenewBodies : PostMemberRenew(1, 1, body)
    \/ \E body \in StaleRenewBodies : RenewBegin(1, 1, body)
    \/ RenewMember
    \/ RenewPlan
    \/ RenewWrite
    \/ Tick

SpecStale == Init /\ [][NextStale]_vars

\* C29: the step in which renew writes the member leaves the name, the
\* joining date and the gymId that the store held before the step.
C29_RenewKeepsDetails ==
    [][/\ resp'.op = "renew"
       /\ resp'.status = 200
       /\ members[resp'.id].row
       => /\ members'[resp'.id].row
          /\ members'[resp'.id].name = members[resp'.id].name
          /\ members'[resp'.id].joiningDate = members[resp'.id].joiningDate
          /\ members'[resp'.id].gymId = members[resp'.id].gymId]_vars

-----------------------------------------------------------------------------
(* The MembersTable component: members-table.tsx 40-70, 187-226, 319-337.
   The component asks GET /api/members for the page, the search term and
   the status filter of its state.  The number of members that the server
   counts for a query is an input of the component: totals gives it for
   every search term and filter, "" being no term and no filter. *)

\* const [limit] = useState(10)
TableLimit == 10

TableTerms == {"", "an"}
TableFilters == {"", "active", "expired", "inactive"}
TableTotals == {0, 5, 25}

\* a filter or a search term leaves no more members than there are without,
\* and every member is in one of the three status filters at least
TotalsOf ==
    {t \in [TableTerms \X TableFilters -> TableTotals] :
        \A term \in TableTerms :
            /\ \A f \in TableFilters :
                  /\ t[<<term, f>>] <= t[<<term, "">>]
                  /\ t[<<term, f>>] <= t[<<"", f>>]
            /\ t[<<term, "">>] <= t[<<term, "active">>]
                  + t[<<term, "expired">>] + t[<<term, "inactive">>]}

\* pagination.totalPages of the answer to the query of the component
ServerTotalPages(tb) ==
    Ceil(tb.totals[<<tb.searchTerm, tb.filter>>], TableLimit)

\* data?.pagination?.totalPages || 0: there is no data while the query loads
TotalPagesShown(tb) == IF tb.isLoading THEN 0 ELSE ServerTotalPages(tb)

\* the pagination controls are rendered
PaginationShown(tb) == ~tb.isLoading /\ TotalPagesShown(tb) > 0

\* the pages of the links of renderPaginationLinks
PageLinks(tb) ==
    LET page == tb.page
        totalPages == TotalPagesShown(tb) IN
    {1} \cup {page - 1 : x \in {y \in {1} : page > 2}}
        \cup {page : x \in {y \in {1} : page > 1 /\ page < totalPages}}
        \cup {page + 1 : x \in {y \in {1} : page < totalPages - 1}}
        \cup {totalPages : x \in {y \in {1} : totalPages > 1}}

\* a state of the component whose query key differs loads its data anew
Rendered(tb, next) ==
    [next EXCEPT !.isLoading =
        IF <<next.page, next.searchTerm, next.filter>> =
              <<tb.page, tb.searchTerm, tb.filter>>
        THEN tb.isLoading ELSE TRUE]

TableStep(next) ==
    /\ table' = Rendered(table, next)
    /\ UNCHANGED <<resp, gyms, gymIdCounter, otps, otpIdCounter, reg, rst,
                   rnw>>
    /\ UNCHANGED <<tz, storageKind, now, membershipPlans, planIdCounter,
                   members, memberIdCounter>>

\* the component is mounted: page 1, no search term, no filter
Mount(totals) ==
    /\ ~table.mounted
    /\ table' = [mounted |-> TRUE, filter |-> "", page |-> 1,
                 totals |-> totals, searchTerm |-> "", isLoading |-> TRUE]
    /\ UNCHANGED <<resp, gyms, gymIdCounter, otps, otpIdCounter, reg, rst,
                   rnw>>
    /\ UNCHANGED <<tz, storageKind, now, membershipPlans, planIdCounter,
                   members, memberIdCounter>>

\* the answer to the query arrives
Loaded ==
    /\ table.mounted
    /\ table.isLoading
    /\ table' = [table EXCEPT !.isLoading = FALSE]
    /\ UNCHANGED <<resp, gyms, gymIdCounter, otps, otpIdCounter, reg, rst,
                   rnw>>
    /\ UNCHANGED <<tz, storageKind, now, membershipPlans, planIdCounter,
                   members, memberIdCounter>>

\* onClick={() => setPage(...)} of a page link
ClickPageLink(p) ==
    /\ table.mounted
    /\ PaginationShown(table)
    /\ p \in PageLinks(table)
    /\ TableStep([table EXCEPT !.page = p])

\* setPage(p => Math.max(1, p - 1))
ClickPrevious ==
    /\ table.mounted
    /\ PaginationShown(table)
    /\ TableStep([table EXCEPT
                     !.page = IF @ - 1 >= 1 THEN @ - 1 ELSE 1])

\* setPage(p => Math.min(totalPages, p + 1))
ClickNext ==
    /\ table.mounted
    /\ PaginationShown(table)
    /\ TableStep([table EXCEPT
                     !.page = IF @ + 1 <= TotalPagesShown(table)
                              THEN @ + 1 ELSE TotalPagesShown(table)])

\* onChange={(e) => setSearchTerm(e.target.value)}
SetSearchTerm(term) ==
    /\ table.mounted
    /\ TableStep([table EXCEPT !.searchTerm = term])

\* onClick={() => setFilter(...)}
SetFilter(f) ==
    /\ table.mounted
    /\ TableStep([table EXCEPT !.filter = f])

NextTable ==
    \/ \E totals \in TotalsOf : Mount(totals)
    \/ Loaded
    \/ \E p \in 1..3 : ClickPageLink(p)
    \/ ClickPrevious
    \/ ClickNext
    \/ \E term \in TableTerms : SetSearchTerm(term)
    \/ \E f \in TableFilters : SetFilter(f)

SpecTable == Init /\ [][NextTable]_vars

\* C30: the page that the table asks for is within 1..max(1, totalPages) of
\* the search term and the filter it asks with.
C30_PageWithinResult ==
    table.mounted =>
        /\ table.page >= 1
        /\ table.page <= IF ServerTotalPages(table) >= 1
                         THEN ServerTotalPages(table) ELSE 1

=============================================================================
